---------------------------- MODULE Spec2Model ----------------------------
(***************************************************************************)
(* Checkers-AI: the board model (GameBoard/board.py), the search engine    *)
(* (SearchToolBox/search.py) and the helper OpponentOf (OtherStuff.py).    *)
(*                                                                         *)
(* Squares are pairs <<r, c>> with 0-based rows and columns as in the      *)
(* source.  A grid (the Python list of lists GameBoard.Board) is a         *)
(* function from squares to cell contents 'w', 'W', 'b', 'B' or None.      *)
(* Heuristic values are Python floats (IEEE-754 doubles); they are kept     *)
(* bit for bit, with every operation rounded to nearest even as the        *)
(* hardware rounds it.                                                     *)
(***************************************************************************)
EXTENDS Integers, Sequences, FiniteSets, TLC

\* ------------------------------------------------------------------------
\* Program constants
\* ------------------------------------------------------------------------
BOARD_SIZE == 8

None == "None"

Rows == 0 .. (BOARD_SIZE - 1)

Squares == Rows \X Rows

Players == {"w", "b"}

Cells == {"w", "W", "b", "B", None}

\* range(BOARD_SIZE) x range(BOARD_SIZE) in row-major order, as every
\* double loop of board.py visits the squares
AllSquaresSeq ==
    [i \in 1 .. (BOARD_SIZE * BOARD_SIZE) |->
        <<(i - 1) \div BOARD_SIZE, (i - 1) % BOARD_SIZE>>]

\* Body applied to value, the value being computed once
With(value, Body(_)) == CHOOSE r \in {Body(x) : x \in {value}} : TRUE

\* str.lower() on a cell
Lower(piece) ==
    CASE piece = "W" -> "w"
      [] piece = "B" -> "b"
      [] OTHER -> piece

\* str.isupper() on a cell
IsUpper(piece) == piece \in {"W", "B"}

\* A faulty OpponentOf that returns the player it is given.
SamePlayer(player) == player

OpponentOf(player) == IF player = "w" THEN "b" ELSE "w"

EmptyGrid == [sq \in Squares |-> None]

\* A faulty starting position, set up on the squares of the other colour.
_CreateStartingBoardShifted ==
    [sq \in Squares |->
        IF (sq[1] + sq[2]) % 2 = 0
        THEN IF sq[1] < 3 THEN "b"
             ELSE IF sq[1] > 4 THEN "w" ELSE None
        ELSE None]

_CreateStartingBoard ==
    [sq \in Squares |->
        IF (sq[1] + sq[2]) % 2 = 1
        THEN IF sq[1] < 3 THEN "b"
             ELSE IF sq[1] > 4 THEN "w" ELSE None
        ELSE None]

\* ------------------------------------------------------------------------
\* GameBoard queries (pure functions of a grid)
\* ------------------------------------------------------------------------
GetPiecesOfPlayer(B, player) ==
    SelectSeq(AllSquaresSeq,
              LAMBDA sq : B[sq] # None /\ Lower(B[sq]) = player)

\* A faulty GoalTest that looks for dark's pieces first: it differs from
\* GoalTest on a board without any piece.
GoalTestDarkFirst(B) ==
    LET w_pieces == \E sq \in Squares : B[sq] # None /\ Lower(B[sq]) = "w"
        b_pieces == \E sq \in Squares : B[sq] # None /\ Lower(B[sq]) = "b"
    IN  IF ~b_pieces THEN "w"
        ELSE IF ~w_pieces THEN "b"
        ELSE None

GoalTest(B) ==
    LET w_pieces == \E sq \in Squares : B[sq] # None /\ Lower(B[sq]) = "w"
        b_pieces == \E sq \in Squares : B[sq] # None /\ Lower(B[sq]) = "b"
    IN  IF ~w_pieces THEN "b"
        ELSE IF ~b_pieces THEN "w"
        ELSE None

_InBounds(sq) ==
    /\ 0 <= sq[1] /\ sq[1] < BOARD_SIZE
    /\ 0 <= sq[2] /\ sq[2] < BOARD_SIZE

\* A faulty test that takes any piece for an opposing one.
_IsAnyPiece(piece, player) == piece # None

_IsOpponentPiece(piece, player) == piece # None /\ Lower(piece) # player

_PieceDirections(piece) ==
    IF piece = None THEN <<>>
    ELSE IF IsUpper(piece)
         THEN << <<-1, -1>>, <<-1, 1>>, <<1, -1>>, <<1, 1>> >>
         ELSE IF piece = "w"
              THEN << <<-1, -1>>, <<-1, 1>> >>
              ELSE << <<1, -1>>, <<1, 1>> >>

\* A faulty direction list: jumps toward row 0 only.
JumpDirectionsUp == << <<-1, -1>>, <<-1, 1>> >>

\* the literal direction list of the jump loop (board.py line 197)
JumpDirections == << <<-1, -1>>, <<-1, 1>>, <<1, -1>>, <<1, 1>> >>

Step(sq, d, k) == <<sq[1] + k * d[1], sq[2] + k * d[2]>>

InSeq(x, s) == \E i \in 1 .. Len(s) : s[i] = x

\* One jump of dfs_jumps applied to the shared grid (lines 219-221): three
\* assignments in source order.
JumpApply(B, cur, mid, land) ==
    LET B1 == [B EXCEPT ![land] = B[cur]]
        B2 == [B1 EXCEPT ![cur] = None]
    IN  [B2 EXCEPT ![mid] = None]

\* A faulty restore that forgets the landing square.
JumpRestoreWithoutLanding(B, cur, mid, land, orig_cur, orig_mid, orig_land) ==
    LET B1 == [B EXCEPT ![cur] = orig_cur]
    IN  [B1 EXCEPT ![mid] = orig_mid]

\* The restore after the recursive call (lines 224-226).
JumpRestore(B, cur, mid, land, orig_cur, orig_mid, orig_land) ==
    LET B1 == [B EXCEPT ![cur] = orig_cur]
        B2 == [B1 EXCEPT ![mid] = orig_mid]
    IN  [B2 EXCEPT ![land] = orig_land]

\* A faulty test that records a sequence after every jump.
TerminalAnywhere(found_any, captured_so_far) == captured_so_far # <<>>

\* the test of line 227: the sequence is recorded when no direction gave a
\* further jump
TerminalSequence(found_any, captured_so_far) ==
    ~found_any /\ captured_so_far # <<>>

\* dfs_jumps.  st = [Board, capture_moves] is the state the closure shares
\* with GenerateLegalMoves: the grid it mutates and restores, and the list
\* it appends to.  DfsDirs is the body of the for loop from direction i on,
\* followed by the terminal test of line 227.
RECURSIVE DfsDirs(_, _, _, _, _, _, _, _)
dfs_jumps(st, player, orig, cur, captured_so_far, seq) ==
    DfsDirs(st, player, orig, cur, captured_so_far, seq, 1, FALSE)

\* the recursive call of line 222 between the writes of lines 219-221 and
\* the restore of lines 224-226
JumpAndBack(st, player, orig, cur, mid, land, captured_so_far, seq) ==
    With(<<st.Board[cur], st.Board[mid], st.Board[land],
           [st EXCEPT !.Board = JumpApply(@, cur, mid, land)]>>,
         LAMBDA o :
           With(dfs_jumps(o[4], player, orig, land,
                          Append(captured_so_far, mid), Append(seq, land)),
                LAMBDA sub :
                  [sub EXCEPT !.Board =
                      JumpRestore(@, cur, mid, land, o[1], o[2], o[3])]))

DfsDirs(st, player, orig, cur, captured_so_far, seq, i, found_any) ==
    IF i > Len(JumpDirections)
    THEN IF TerminalSequence(found_any, captured_so_far)
         THEN [st EXCEPT !.capture_moves =
                  Append(@, [start |-> orig, sequence |-> seq,
                             captures |-> captured_so_far])]
         ELSE st
    ELSE
      LET d == JumpDirections[i]
          mid == Step(cur, d, 1)
          land == Step(cur, d, 2)
          skip == DfsDirs(st, player, orig, cur, captured_so_far, seq,
                          i + 1, found_any)
      IN  IF ~(_InBounds(mid) /\ _InBounds(land)) THEN skip
          ELSE IF st.Board[mid] = None \/ st.Board[land] # None THEN skip
          ELSE IF InSeq(mid, captured_so_far) THEN skip
          ELSE IF _IsOpponentPiece(st.Board[mid], player)
          THEN With(<<JumpAndBack(st, player, orig, cur, mid, land,
                                  captured_so_far, seq),
                      player, orig, cur, captured_so_far, seq>>,
                    LAMBDA a :
                      DfsDirs(a[1], a[2], a[3], a[4], a[5], a[6],
                              i + 1, TRUE))
          ELSE skip

\* The simple (non-capturing) steps of the piece on sq (lines 236-240).
RECURSIVE SimpleMoves(_, _, _, _)
SimpleMoves(B, sq, dirs, i) ==
    IF i > Len(dirs) THEN <<>>
    ELSE LET n == Step(sq, dirs[i], 1)
         IN  (IF _InBounds(n) /\ B[n] = None
              THEN <<[start |-> sq, sequence |-> <<n>>, captures |-> <<>>]>>
              ELSE <<>>)
             \o SimpleMoves(B, sq, dirs, i + 1)

\* One turn of the loop over the pieces of player (lines 184-240) for the
\* piece on sq; st carries the grid, capture_moves and all_moves.
PieceTurn(st, player, sq) ==
    With(dfs_jumps([Board |-> st.Board,
                    capture_moves |-> st.capture_moves],
                   player, sq, sq, <<>>, <<>>),
         LAMBDA j :
           LET hasCapture == \E m \in 1 .. Len(j.capture_moves) :
                                 j.capture_moves[m].start = sq
               simple == IF hasCapture THEN <<>>
                         ELSE SimpleMoves(j.Board, sq,
                                          _PieceDirections(st.Board[sq]), 1)
           IN  [Board |-> j.Board,
                capture_moves |-> j.capture_moves,
                all_moves |-> st.all_moves \o simple])

RECURSIVE PieceLoop(_, _, _, _)
PieceLoop(st, player, pieces, k) ==
    IF k > Len(pieces) THEN st
    ELSE With(PieceTurn(st, player, pieces[k]),
              LAMBDA st1 : PieceLoop(st1, player, pieces, k + 1))

\* A faulty GenerateLegalMoves without the preference of line 242: it
\* returns the captures followed by the simple moves.
GenerateLegalMovesMixed(B, player) ==
    With(<<B, player, GetPiecesOfPlayer(B, player)>>,
         LAMBDA a :
           With(PieceLoop([Board |-> a[1], capture_moves |-> <<>>,
                           all_moves |-> <<>>], a[2], a[3], 1),
                LAMBDA st :
                  [moves |-> st.capture_moves \o st.all_moves,
                   Board |-> st.Board]))

\* GenerateLegalMoves as the code runs it: the returned list and the grid
\* as it is left when the call returns.
GenerateLegalMovesRun(B, player) ==
    With(<<B, player, GetPiecesOfPlayer(B, player)>>,
         LAMBDA a :
           With(PieceLoop([Board |-> a[1], capture_moves |-> <<>>,
                           all_moves |-> <<>>], a[2], a[3], 1),
                LAMBDA st :
                  [moves |-> IF st.capture_moves # <<>>
                             THEN st.capture_moves ELSE st.all_moves,
                   Board |-> st.Board]))

GenerateLegalMoves(B, player) == GenerateLegalMovesRun(B, player).moves

\* ApplyMove's writes to the cloned grid nb.Board (lines 261-277), in source
\* order; the result is the grid of the successor.
RECURSIVE ClearCaptures(_, _, _)
ClearCaptures(B, captures, i) ==
    IF i > Len(captures) THEN B
    ELSE ClearCaptures([B EXCEPT ![captures[i]] = None], captures, i + 1)

LastLanding(move) ==
    IF move.sequence = <<>> THEN move.start
    ELSE move.sequence[Len(move.sequence)]

\* A faulty promotion step that crowns a man one rank early.
KingingEarly(B, piece, last) ==
    LET B1 == IF piece = "w" /\ last[1] <= 1
              THEN [B EXCEPT ![last] = "W"] ELSE B
    IN  IF piece = "b" /\ last[1] >= BOARD_SIZE - 2
        THEN [B1 EXCEPT ![last] = "B"] ELSE B1

\* A faulty promotion step that never crowns.
KingingNever(B, piece, last) == B

Kinging(B, piece, last) ==
    LET B1 == IF piece = "w" /\ last[1] = 0
              THEN [B EXCEPT ![last] = "W"] ELSE B
    IN  IF piece = "b" /\ last[1] = BOARD_SIZE - 1
        THEN [B1 EXCEPT ![last] = "B"] ELSE B1

\* A faulty ApplyMove that crowns a man when any landing of its sequence
\* is on the last rank.
ApplyMoveGridCrowningOnPassage(nbBoard, move) ==
    LET piece == nbBoard[move.start]
        B1 == [nbBoard EXCEPT ![move.start] = None]
        last == LastLanding(move)
        B2 == [B1 EXCEPT ![last] = piece]
        B3 == ClearCaptures(B2, move.captures, 1)
        passed(row) == \E i \in 1 .. Len(move.sequence) :
                           move.sequence[i][1] = row
    IN  IF piece = "w" /\ passed(0) THEN [B3 EXCEPT ![last] = "W"]
        ELSE IF piece = "b" /\ passed(BOARD_SIZE - 1)
        THEN [B3 EXCEPT ![last] = "B"]
        ELSE B3

ApplyMoveGrid(nbBoard, move) ==
    LET piece == nbBoard[move.start]
        B1 == [nbBoard EXCEPT ![move.start] = None]
        last == LastLanding(move)
        B2 == [B1 EXCEPT ![last] = piece]
        B3 == ClearCaptures(B2, move.captures, 1)
    IN  Kinging(B3, piece, last)

\* ------------------------------------------------------------------------
\* Python floats.  A finite double is sign * mag * 2^-58 with mag a natural
\* number below 2^66 written in three limbs <<h, m, l>> of 22 bits
\* (mag = h * 2^44 + m * 2^22 + l); every double the evaluation meets is
\* such a multiple.  Zero has sign 0.  The infinities have a limb h no
\* finite value reaches.
\* ------------------------------------------------------------------------
LimbBase == 2 ^ 22

Abs(x) == IF x < 0 THEN -x ELSE x

Sign(x) == IF x < 0 THEN -1 ELSE IF x > 0 THEN 1 ELSE 0

\* limbs brought back into 0 .. LimbBase - 1 after a limb-wise operation
Carry(t) ==
    With(t, LAMBDA u :
        With(u[2] + (u[3] \div LimbBase), LAMBDA m0 :
            <<u[1] + (m0 \div LimbBase), m0 % LimbBase, u[3] % LimbBase>>))

MagAdd(a, b) == Carry(<<a[1] + b[1], a[2] + b[2], a[3] + b[3]>>)

\* a - b for a >= b
MagSub(a, b) == Carry(<<a[1] - b[1], a[2] - b[2], a[3] - b[3]>>)

MagMul(a, k) == Carry(<<a[1] * k, a[2] * k, a[3] * k>>)

MagLess(a, b) ==
    \/ a[1] < b[1]
    \/ a[1] = b[1] /\ a[2] < b[2]
    \/ a[1] = b[1] /\ a[2] = b[2] /\ a[3] < b[3]

RECURSIVE BitLen(_)
BitLen(n) ==
    With(n, LAMBDA k : IF k = 0 THEN 0 ELSE 1 + BitLen(k \div 2))

\* mag rounded to 53 significant bits, to nearest, ties to even; sticky
\* tells that the exact value lies above mag by less than one unit
Round53(mag, sticky) ==
    With(mag, LAMBDA m :
      With(BitLen(m[1]) + 44 - 53, LAMBDA shift :
        IF shift <= 0 THEN m
        ELSE With(2 ^ shift, LAMBDA P :
               With(m[3] % P, LAMBDA rem :
                 LET odd == (m[3] \div P) % 2 = 1
                     up == \/ 2 * rem > P
                           \/ 2 * rem = P /\ (sticky \/ odd)
                 IN  Carry(<<m[1], m[2],
                             m[3] - rem + (IF up THEN P ELSE 0)>>)))))

Float(sign, mag) ==
    With(mag, LAMBDA m :
        [sign |-> IF m = <<0, 0, 0>> THEN 0 ELSE sign, mag |-> m])

FZero == Float(0, <<0, 0, 0>>)

\* the double nearest to num / den (a decimal literal of the source), for
\* natural numbers num < 2^7 and 0 < den < 2^8
FromRatio(num, den) ==
    LET h == num * (2 ^ 14)
        r1 == h % den
        r2 == (r1 * LimbBase) % den
        r3 == (r2 * LimbBase) % den
    IN  Float(1, Round53(<<h \div den, (r1 * LimbBase) \div den,
                           (r2 * LimbBase) \div den>>, r3 # 0))

\* a + b
FAdd(a, b) ==
    With(<<a, b>>, LAMBDA p :
        IF p[1].sign = 0 THEN p[2]
        ELSE IF p[2].sign = 0 THEN p[1]
        ELSE IF p[1].sign = p[2].sign
        THEN Float(p[1].sign, Round53(MagAdd(p[1].mag, p[2].mag), FALSE))
        ELSE IF MagLess(p[1].mag, p[2].mag)
        THEN Float(p[2].sign, Round53(MagSub(p[2].mag, p[1].mag), FALSE))
        ELSE Float(p[1].sign, Round53(MagSub(p[1].mag, p[2].mag), FALSE)))

\* a - b
FSub(a, b) == With(b, LAMBDA q : FAdd(a, [q EXCEPT !.sign = -q.sign]))

\* a * k for an integer k with |k| < 2^8
FMulInt(a, k) ==
    With(<<a, k>>, LAMBDA p :
        Float(p[1].sign * Sign(p[2]),
              Round53(MagMul(p[1].mag, Abs(p[2])), FALSE)))

\* a < b
FLess(a, b) ==
    With(<<a, b>>, LAMBDA p :
        IF p[1].sign # p[2].sign THEN p[1].sign < p[2].sign
        ELSE IF p[1].sign = 1 THEN MagLess(p[1].mag, p[2].mag)
        ELSE IF p[1].sign = -1 THEN MagLess(p[2].mag, p[1].mag)
        ELSE FALSE)

\* ------------------------------------------------------------------------
\* Heuristic evaluation
\* ------------------------------------------------------------------------
\* 3 - (abs(3.5 - r) + abs(3.5 - c)) / 2.0, a multiple of one half computed
\* without rounding, as the number of its halves
CenterHalves(sq) == 6 - ((Abs(7 - 2 * sq[1]) + Abs(7 - 2 * sq[2])) \div 2)

\* 0.05 * (3 - ...): the product of the double 0.05 with j / 2 is the
\* product of the double 0.025 (its exact half) with j
CenterBonus(sq) == FMulInt(FromRatio(1, 40), CenterHalves(sq))

\* val = 1.0 if p.islower() else 1.8; val += center_bonus
PieceValue(B, sq) ==
    With(sq, LAMBDA at :
        FAdd(IF IsUpper(B[at]) THEN FromRatio(9, 5) ELSE FromRatio(1, 1),
             CenterBonus(at)))

\* score += val over the squares sqs from the i-th on, in the order of the
\* double loop
RECURSIVE SumValues(_, _, _, _)
SumValues(B, sqs, i, score) ==
    IF i > Len(sqs) THEN score
    ELSE With(FAdd(score, PieceValue(B, sqs[i])),
              LAMBDA more : SumValues(B, sqs, i + 1, more))

EvaluateForGrid(B, player) ==
    LET mine == SelectSeq(AllSquaresSeq,
                   LAMBDA sq : B[sq] # None /\ Lower(B[sq]) = player)
        theirs == SelectSeq(AllSquaresSeq,
                   LAMBDA sq : B[sq] # None /\ Lower(B[sq]) # player)
    IN  With(<<mine, theirs>>, LAMBDA pieces :
          LET my_score == SumValues(B, pieces[1], 1, FZero)
              opp_score == SumValues(B, pieces[2], 1, FZero)
              my_moves == Len(GenerateLegalMoves(B, player))
              opp_moves == Len(GenerateLegalMoves(B, OpponentOf(player)))
              mobility_score ==
                  FMulInt(FromRatio(1, 10), my_moves - opp_moves)
          IN  FAdd(FSub(my_score, opp_score), mobility_score))

EvaluateFor(B, player) ==
    With(<<B, player>>, LAMBDA a : EvaluateForGrid(a[1], a[2]))

\* ------------------------------------------------------------------------
\* GameBoard objects.  A heap h holds the GameBoard objects (fields Board, a
\* reference to a grid, and PlayerToMove) and the grids (the mutable lists
\* they refer to).  References are positive integers; NoneRef is Python's
\* None where a GameBoard is expected.
\* ------------------------------------------------------------------------
NoneRef == 0

FreshId(used) ==
    CHOOSE n \in 1 .. (Cardinality(used) + 1) :
        n \notin used /\ \A m \in 1 .. (n - 1) : m \in used

EmptyHeap == [GameBoards |-> <<>>, Grids |-> <<>>]

\* GameBoard(board=grid, player_to_move=player) with a newly built grid
NewGameBoard(h, B, player) ==
    LET o == FreshId(DOMAIN h.GameBoards)
        g == FreshId(DOMAIN h.Grids)
    IN  [heap |-> [GameBoards |-> h.GameBoards @@
                       (o :> [Board |-> g, PlayerToMove |-> player]),
                   Grids |-> h.Grids @@ (g :> B)],
         ref |-> o]

GridOf(h, self) == h.Grids[h.GameBoards[self].Board]

SideOf(h, self) == h.GameBoards[self].PlayerToMove

\* A faulty Clone that copies the GameBoard object only: the clone refers
\* to the grid of the original.
CloneShallow(h, self) ==
    LET o == FreshId(DOMAIN h.GameBoards)
    IN  [heap |-> [h EXCEPT !.GameBoards = @ @@
                       (o :> [Board |-> h.GameBoards[self].Board,
                              PlayerToMove |-> SideOf(h, self)])],
         ref |-> o]

\* Clone: copy.deepcopy(self.Board) is a new grid with the same contents
Clone(h, self) == NewGameBoard(h, GridOf(h, self), SideOf(h, self))

ApplyMove(h, self, move) ==
    With(Clone(h, self),
         LAMBDA c :
           LET nb == c.ref
               g == c.heap.GameBoards[nb].Board
               h1 == [c.heap EXCEPT !.Grids[g] = ApplyMoveGrid(@, move)]
           IN  [heap |-> [h1 EXCEPT !.GameBoards[nb].PlayerToMove =
                              OpponentOf(SideOf(h, self))],
                ref |-> nb])

\* self.GenerateLegalMoves(player): the list, and the heap with self's grid
\* as the call leaves it
GenerateLegalMovesOn(h, self, player) ==
    With(GenerateLegalMovesRun(GridOf(h, self), player),
         LAMBDA run :
           [heap |-> [h EXCEPT !.Grids[h.GameBoards[self].Board] = run.Board],
            moves |-> run.moves])

\* A faulty matching loop that compares the target with the final landing
\* square only.
RECURSIVE FinalMatch(_, _, _, _)
FinalMatch(legal, s, t, i) ==
    IF i > Len(legal) THEN 0
    ELSE LET mv == legal[i]
         IN  IF mv.start # s THEN FinalMatch(legal, s, t, i + 1)
             ELSE IF /\ mv.sequence # <<>>
                     /\ mv.sequence[Len(mv.sequence)] = t
                  THEN i
                  ELSE FinalMatch(legal, s, t, i + 1)

\* the for loop of MakeMoveIfLegal (lines 300-307): index of the first
\* matching move, 0 when the loop falls through
RECURSIVE FirstMatch(_, _, _, _)
FirstMatch(legal, s, t, i) ==
    IF i > Len(legal) THEN 0
    ELSE LET mv == legal[i]
         IN  IF mv.start # s THEN FirstMatch(legal, s, t, i + 1)
             ELSE IF /\ mv.sequence # <<>>
                     /\ \/ mv.sequence[1] = t
                        \/ mv.sequence[Len(mv.sequence)] = t
                  THEN i
                  ELSE FirstMatch(legal, s, t, i + 1)

MakeMoveIfLegal(h, self, s, t) ==
    With(GenerateLegalMovesOn(h, self, SideOf(h, self)),
         LAMBDA gl :
           LET i == FirstMatch(gl.moves, s, t, 1)
           IN  IF i = 0 THEN [heap |-> gl.heap, ref |-> NoneRef]
               ELSE ApplyMove(gl.heap, self, gl.moves[i]))

\* Objects no reference in roots leads to are reclaimed.
Reclaim(h, roots) ==
    LET live == roots \cap DOMAIN h.GameBoards
        grids == {h.GameBoards[o].Board : o \in live}
    IN  [GameBoards |-> [o \in live |-> h.GameBoards[o]],
         Grids |-> [g \in grids |-> h.Grids[g]]]

\* ------------------------------------------------------------------------
\* Boards the board-level specification starts from
\* ------------------------------------------------------------------------
Playable == {sq \in Squares : (sq[1] + sq[2]) % 2 = 1}

\* the grid holding exactly the pieces of placed, a set of <<square, piece>>
Place(placed) ==
    [sq \in Squares |->
        IF \E p \in placed : p[1] = sq
        THEN (CHOOSE p \in placed : p[1] = sq)[2]
        ELSE None]

Neighbours(sq) ==
    {n \in Squares : Abs(n[1] - sq[1]) = 1 /\ Abs(n[2] - sq[2]) = 1}

\* every light piece on a playable square with every dark piece next to it
AdjacentPairs ==
    {Place({<<a, p>>, <<b, q>>}) :
        <<a, b, p, q>> \in
            {x \in Playable \X Playable \X {"w", "W"} \X {"b", "B"} :
                x[2] \in Neighbours(x[1])}}

ScenarioBoards ==
    { _CreateStartingBoard,
      EmptyGrid,
      \* the capture of the specification's scenario
      Place({<<<<3, 4>>, "w">>, <<<<2, 5>>, "b">>}),
      \* a double jump
      Place({<<<<5, 2>>, "w">>, <<<<4, 3>>, "b">>, <<<<2, 5>>, "b">>}),
      \* two chains with the same first landing and different final ones
      Place({<<<<5, 2>>, "w">>, <<<<4, 3>>, "b">>, <<<<2, 3>>, "b">>,
             <<<<2, 5>>, "b">>}),
      \* a chain that ends on its start square
      Place({<<<<4, 1>>, "W">>, <<<<3, 2>>, "b">>, <<<<3, 4>>, "b">>,
             <<<<5, 4>>, "B">>, <<<<5, 2>>, "b">>}),
      Place({<<<<4, 1>>, "b">>, <<<<3, 2>>, "w">>, <<<<3, 4>>, "W">>,
             <<<<5, 4>>, "w">>, <<<<5, 2>>, "w">>, <<<<7, 0>>, "w">>}),
      \* a chain through the promotion rank that ends off it
      Place({<<<<2, 1>>, "w">>, <<<<1, 2>>, "b">>, <<<<1, 4>>, "b">>,
             <<<<6, 1>>, "b">>}),
      Place({<<<<5, 4>>, "b">>, <<<<6, 3>>, "w">>, <<<<6, 1>>, "w">>,
             <<<<1, 2>>, "w">>}),
      \* one piece can capture, another can only step
      Place({<<<<5, 2>>, "w">>, <<<<4, 3>>, "b">>, <<<<6, 7>>, "w">>,
             <<<<0, 1>>, "b">>}),
      \* a side with pieces and no legal move
      Place({<<<<0, 1>>, "w">>, <<<<7, 2>>, "b">>}),
      Place({<<<<7, 0>>, "w">>, <<<<6, 1>>, "b">>, <<<<5, 2>>, "b">>}),
      \* one side only
      Place({<<<<4, 3>>, "b">>, <<<<6, 5>>, "B">>}),
      Place({<<<<1, 2>>, "w">>}),
      \* pieces off the playable squares
      Place({<<<<4, 4>>, "w">>, <<<<3, 3>>, "b">>, <<<<2, 3>>, "B">>}) }

InitBoards == ScenarioBoards \cup AdjacentPairs

\* ------------------------------------------------------------------------
\* Search values.  A value returned by a recursive call is [isNone, v],
\* isNone standing for the None that signals time up.
\* ------------------------------------------------------------------------
PosInf == [sign |-> 1, mag |-> <<2 ^ 30, 0, 0>>]

NegInf == [sign |-> -1, mag |-> <<2 ^ 30, 0, 0>>]

\* max(a, b) and min(a, b) of Python
Max(a, b) == IF FLess(a, b) THEN b ELSE a

Min(a, b) == IF FLess(b, a) THEN b ELSE a

NoneVal == [isNone |-> TRUE, v |-> FZero]

Val(x) == [isNone |-> FALSE, v |-> x]

KnownStrategies == {"Minimax", "AlphaBeta", "AlphaBetaOrdering"}

\* the successor board.ApplyMove(mv) as a value: the search gives every
\* successor to exactly one frame, which only reads it
ApplyMoveValue(b, mv) ==
    [Board |-> ApplyMoveGrid(b.Board, mv),
     PlayerToMove |-> OpponentOf(b.PlayerToMove)]

\* list.sort(key=..., reverse=descending) on (key, index) pairs: a stable
\* insertion of index k among the already sorted ones
RECURSIVE InsertPos(_, _, _, _, _)
InsertPos(sorted, keys, k, descending, j) ==
    IF j > Len(sorted) THEN j
    ELSE IF (descending /\ FLess(keys[sorted[j]], keys[k]))
            \/ (~descending /\ FLess(keys[k], keys[sorted[j]]))
         THEN j
         ELSE InsertPos(sorted, keys, k, descending, j + 1)

RECURSIVE SortFrom(_, _, _, _)
SortFrom(sorted, keys, k, descending) ==
    IF k > Len(keys) THEN sorted
    ELSE With(LET j == InsertPos(sorted, keys, k, descending, 1)
              IN  SubSeq(sorted, 1, j - 1) \o <<k>>
                      \o SubSeq(sorted, j, Len(sorted)),
              LAMBDA longer : SortFrom(longer, keys, k + 1, descending))

\* the heuristic values of the successors of b by the moves from the k-th
\* on, seen from player
RECURSIVE SortKeys(_, _, _, _)
SortKeys(b, moves, player, k) ==
    IF k > Len(moves) THEN <<>>
    ELSE <<EvaluateFor(ApplyMoveGrid(b.Board, moves[k]), player)>>
             \o SortKeys(b, moves, player, k + 1)

\* the indices of moves ordered by the heuristic value of the successor,
\* seen from player (lines 104-111, 285-290, 332-338)
OrderedIndices(b, moves, player, descending) ==
    With(SortKeys(b, moves, player, 1),
         LAMBDA keys : SortFrom(<<>>, keys, 1, descending))

Identity(n) == [k \in 1 .. n |-> k]

RECURSIVE Permuted(_, _, _)
Permuted(moves, idx, k) ==
    IF k > Len(idx) THEN <<>>
    ELSE <<moves[idx[k]]>> \o Permuted(moves, idx, k + 1)

OrderedMoves(b, moves, player, descending) ==
    With(OrderedIndices(b, moves, player, descending),
         LAMBDA idx : Permuted(moves, idx, 1))

IsMinFn(fn) == fn \in {"_MinValue", "_AlphaBetaMin"}

IsAlphaBetaFn(fn) == fn \in {"_AlphaBetaMin", "_AlphaBetaMax"}

\* the function a frame of function fn calls for its children
ChildFn(fn) ==
    CASE fn = "_MinValue" -> "_MaxValue"
      [] fn = "_MaxValue" -> "_MinValue"
      [] fn = "_AlphaBetaMin" -> "_AlphaBetaMax"
      [] fn = "_AlphaBetaMax" -> "_AlphaBetaMin"

\* A faulty recursive call that passes its own depth on.
ChildDepthSame(depth) == depth

\* the depth a recursive call gives to the calls it makes
\* (lines 214, 246, 293, 341)
ChildDepth(depth) == depth + 1

\* a call fn(b, depth, alpha, beta, root_player, use_ordering) about to
\* run its first line
NewFrame(fn, b, depth, alpha, beta, root_player, use_ordering) ==
    [fn |-> fn, board |-> b, depth |-> depth, alpha |-> alpha,
     beta |-> beta, root_player |-> root_player,
     use_ordering |-> use_ordering,
     pc |-> "entry", v |-> FZero, moves |-> <<>>, i |-> 0]

\* A faulty start of the loops that gives the minimising functions the
\* starting value of the maximising ones.
InitialValueAlike(fn) == NegInf

\* v before the loop over the moves (lines 209, 241, 280, 328)
InitialValue(fn) == IF IsMinFn(fn) THEN PosInf ELSE NegInf

\* float('inf') if winner == root_player else float('-inf')
TerminalUtility(winner, root_player) ==
    IF winner = root_player THEN PosInf ELSE NegInf

\* A faulty cutoff test that needs the value to pass the bound.
IsCutoffStrict(fn, v, alpha, beta) ==
    IF IsMinFn(fn) THEN FLess(v, alpha) ELSE FLess(beta, v)

\* A faulty cutoff test that compares with the wrong bound.
IsCutoffSwapped(fn, v, alpha, beta) ==
    IF IsMinFn(fn) THEN ~FLess(beta, v) ELSE ~FLess(v, alpha)

\* the cutoff test of an alpha-beta frame after v was updated
\* (lines 297 and 345)
IsCutoff(fn, v, alpha, beta) ==
    IF IsMinFn(fn) THEN ~FLess(alpha, v) ELSE ~FLess(v, beta)

\* A faulty depth test that lets a call at the ply limit go on to its
\* children.
DepthLimitPassed(depth, e) == depth > e.MaxPly

\* depth >= self.MaxPly (lines 207, 239, 278, 326)
DepthLimitReached(depth, e) == depth >= e.MaxPly

\* A faulty order of the two tests: the ply limit first.
EntryTestLimitFirst(winner, depth, e) ==
    IF DepthLimitReached(depth, e) THEN "limit"
    ELSE IF winner # None THEN "terminal"
    ELSE "moves"

\* the two tests of a recursive call after the time check, in their order
\* (lines 203-208, 236-240, 275-279, 323-327): which way the call goes
EntryTest(winner, depth, e) ==
    IF winner # None THEN "terminal"
    ELSE IF DepthLimitReached(depth, e) THEN "limit"
    ELSE "moves"

\* bestVal before the root loop (line 94)
InitialBestVal(player) == IF player = "b" THEN NegInf ELSE PosInf

\* ------------------------------------------------------------------------
\* Minimax without a deadline: _MinValue and _MaxValue when every time
\* check passes, and the root loop of ChooseMove over them
\* ------------------------------------------------------------------------
RECURSIVE MinimaxValue(_, _, _, _, _)
RECURSIVE MinimaxOver(_, _, _, _, _, _, _, _)
MinimaxValue(fn, b, depth, root_player, maxPly) ==
    LET winner == GoalTest(b.Board)
    IN  IF winner # None THEN TerminalUtility(winner, root_player)
        ELSE IF depth >= maxPly THEN EvaluateFor(b.Board, root_player)
        ELSE With(GenerateLegalMoves(b.Board, b.PlayerToMove),
                  LAMBDA moves :
                    MinimaxOver(fn, b, moves, 1,
                                IF IsMinFn(fn) THEN PosInf ELSE NegInf,
                                depth, root_player, maxPly))

MinimaxOver(fn, b, moves, i, v, depth, root_player, maxPly) ==
    IF i > Len(moves) THEN v
    ELSE With(MinimaxValue(ChildFn(fn), ApplyMoveValue(b, moves[i]),
                           depth + 1, root_player, maxPly),
              LAMBDA val :
                With(IF IsMinFn(fn) THEN Min(v, val) ELSE Max(v, val),
                     LAMBDA v1 :
                       MinimaxOver(fn, b, moves, i + 1, v1, depth,
                                   root_player, maxPly)))

RECURSIVE MinimaxRoot(_, _, _, _, _)
MinimaxRoot(b, moves, i, bestVal, maxPly) ==
    IF i > Len(moves) THEN bestVal
    ELSE With(MinimaxValue("_MinValue", ApplyMoveValue(b, moves[i]), 1,
                           b.PlayerToMove, maxPly),
              LAMBDA val :
                With(IF FLess(bestVal, val) THEN val ELSE bestVal,
                     LAMBDA best : MinimaxRoot(b, moves, i + 1, best, maxPly)))

\* ------------------------------------------------------------------------
\* State
\* ------------------------------------------------------------------------
VARIABLES
    heap,       \* the GameBoard objects and their grids
    board,      \* the GameBoard the caller holds and calls methods on
    parent,     \* the GameBoard board was derived from, still held by the
                \* caller's caller (NoneRef at the start)
    call,       \* the last method call on board: its name, arguments and
                \* return value
    snap,       \* contents of board and of parent when each was obtained
    descents,   \* how many times the caller moved on to a successor
    engine,     \* the SearchToolBox object: its fields
    now,        \* time.time(), in ticks of half a second
    cm,         \* the running ChooseMove call: position and local variables
    stack,      \* the pending recursive calls, innermost last
    ret,        \* the value the call that just returned handed back
    hist,       \* what the caller of ChooseMove noted: the engine's settings
                \* when it called, and the records of the calls that returned;
                \* vals, the values the root loop of the running call was
                \* handed so far, one per root move evaluated in full
    game        \* the PlayingTheGame object and the position of its
                \* RunInteractiveGame loop; stdin, the lines not yet read

boardVars == <<heap, board, parent, call, snap, descents>>

searchVars == <<engine, now, cm, stack, ret>>

driverVars == <<hist, game>>

vars == <<heap, board, parent, call, snap, descents,
          engine, now, cm, stack, ret, hist, game>>

\* how many successive successors the board-level specification follows
MaxDescents == 1

Contents(h, self) ==
    [Board |-> GridOf(h, self), PlayerToMove |-> SideOf(h, self)]

NoContents == [Board |-> EmptyGrid, PlayerToMove |-> None]

\* The squares a caller passes to MakeMoveIfLegal: as start any occupied
\* square, as target any square some piece of either side can land on
\* first or last, and <<0, 0>> for both.
LandingsOf(moves) ==
    {moves[i].sequence[1] : i \in 1 .. Len(moves)}
    \cup {LastLanding(moves[i]) : i \in 1 .. Len(moves)}

Landings(B) ==
    LandingsOf(GenerateLegalMoves(B, "w"))
    \cup LandingsOf(GenerateLegalMoves(B, "b"))

StartInputs(B) == {sq \in Squares : B[sq] # None} \cup {<<0, 0>>}

TargetInputs(B) == Landings(B) \cup {<<0, 0>>}

\* ------------------------------------------------------------------------
\* The search engine object and a ChooseMove call
\* ------------------------------------------------------------------------
NoTime == -1

NoMove == 0

NoRet == [set |-> FALSE, isNone |-> FALSE, v |-> FZero]

Returned(x) == [set |-> TRUE, isNone |-> x.isNone, v |-> x.v]

\* SearchToolBox.__init__
NewSearchToolBox(Strategy, TimeLimit, MaxPly) ==
    [Strategy |-> Strategy, TimeLimit |-> TimeLimit, MaxPly |-> MaxPly,
     NodesExpanded |-> 0, NodesGenerated |-> 0, AlphaBetaPrunes |-> 0,
     OrderingUsed |-> (Strategy = "AlphaBetaOrdering"),
     TimeStart |-> NoTime, TimeUp |-> FALSE]

IdleCall ==
    [pc |-> "idle", player |-> None, legal |-> <<>>, child_list |-> <<>>,
     i |-> 0, bestMove |-> NoMove, bestVal |-> FZero, alpha |-> FZero,
     beta |-> FZero,
     broke |-> FALSE, moves |-> <<>>, saved |-> <<>>, prunes_without |-> 0,
     analytics |-> <<>>, result |-> <<>>]

\* the settings of an engine a caller can see
Settings(e) ==
    [Strategy |-> e.Strategy, TimeLimit |-> e.TimeLimit, MaxPly |-> e.MaxPly]

NoHist == [entry |-> <<>>, vals |-> <<>>, calls |-> <<>>]

\* PlayingTheGame.CumulativeAnalytics as __init__ builds it
NoAnalytics ==
    [p \in Players |->
        [NodesExpanded |-> 0, NodesGenerated |-> 0, AlphaBetaPrunes |-> 0,
         Moves |-> 0]]

\* no game is being played: the board and the engine are used directly
NoGame ==
    [pc |-> "none", announced |-> None, stdin |-> <<>>,
     CumulativeAnalytics |-> NoAnalytics]

InitBoard ==
    \E B \in InitBoards, p \in Players :
        /\ heap = NewGameBoard(EmptyHeap, B, p).heap
        /\ board = NewGameBoard(EmptyHeap, B, p).ref
        /\ parent = NoneRef
        /\ call = [op |-> "none"]
        /\ snap = [board |-> [Board |-> B, PlayerToMove |-> p],
                   parent |-> NoContents]
        /\ descents = 0
        /\ engine = NewSearchToolBox("AlphaBetaOrdering", 4, 6)
        /\ now = 0
        /\ cm = IdleCall
        /\ stack = <<>>
        /\ ret = NoRet
        /\ hist = NoHist
        /\ game = NoGame

\* legal = board.GenerateLegalMoves(board.PlayerToMove);
\* succ = board.ApplyMove(legal[i])
ApplyMoveCall ==
    /\ call.op = "none"
    /\ \E gl \in {GenerateLegalMovesOn(heap, board, SideOf(heap, board))} :
           \E i \in 1 .. Len(gl.moves) :
               \E r \in {ApplyMove(gl.heap, board, gl.moves[i])} :
                   /\ call' = [op |-> "ApplyMove", move |-> gl.moves[i],
                                ret |-> r.ref]
                   /\ heap' = r.heap
                   /\ UNCHANGED <<board, parent, snap, descents,
                                  searchVars, driverVars>>

MakeMoveIfLegalCall ==
    /\ call.op = "none"
    /\ \E s \in StartInputs(GridOf(heap, board)),
          t \in TargetInputs(GridOf(heap, board)) :
           \E r \in {MakeMoveIfLegal(heap, board, s, t)} :
               /\ call' = [op |-> "MakeMoveIfLegal", s |-> s, t |-> t,
                            ret |-> r.ref]
               /\ heap' = r.heap
               /\ UNCHANGED <<board, parent, snap, descents,
                              searchVars, driverVars>>

GenerateLegalMovesCall ==
    /\ call.op = "none"
    /\ \E player \in Players :
           \E r \in {GenerateLegalMovesOn(heap, board, player)} :
               /\ call' = [op |-> "GenerateLegalMoves", player |-> player,
                            ret |-> r.moves]
               /\ heap' = r.heap
               /\ UNCHANGED <<board, parent, snap, descents,
                              searchVars, driverVars>>

GoalTestCall ==
    /\ call.op = "none"
    /\ call' = [op |-> "GoalTest", ret |-> GoalTest(GridOf(heap, board))]
    /\ UNCHANGED <<heap, board, parent, snap, descents,
                   searchVars, driverVars>>

\* the caller drops what the call returned and is ready for the next call
Release ==
    /\ call.op # "none"
    /\ call' = [op |-> "none"]
    /\ heap' = Reclaim(heap, {board, parent})
    /\ UNCHANGED <<board, parent, snap, descents, searchVars, driverVars>>

\* the caller goes on with the successor it was given (the recursion of the
\* search, BoardState = newstate in the drivers); its own caller keeps the
\* board the successor came from
Descend ==
    /\ call.op \in {"ApplyMove", "MakeMoveIfLegal"}
    /\ call.ret # NoneRef
    /\ descents < MaxDescents
    /\ board' = call.ret
    /\ parent' = board
    /\ heap' = Reclaim(heap, {call.ret, board})
    /\ snap' = [board |-> Contents(heap, call.ret), parent |-> snap.board]
    /\ call' = [op |-> "none"]
    /\ descents' = descents + 1
    /\ UNCHANGED <<searchVars, driverVars>>

NextBoard ==
    \/ ApplyMoveCall
    \/ MakeMoveIfLegalCall
    \/ GenerateLegalMovesCall
    \/ GoalTestCall
    \/ Release
    \/ Descend

SpecBoard == InitBoard /\ [][NextBoard]_vars

\* ------------------------------------------------------------------------
\* The search: ChooseMove and the recursive evaluation, one step per
\* stretch of code between two calls of a recursive function
\* ------------------------------------------------------------------------
\* the latest clock value of the model, and the ply and time limits and
\* boards an engine is constructed and called with
MaxNow == 1

MaxTimeLimit == 2

MaxPlies == 3

\* min(0.5, saved_TimeLimit) and min(2, saved_MaxPly) of the ordering-gain
\* estimate, the first in ticks
EstTimeLimit == 1

EstMaxPly == 2

SearchBoards ==
    { _CreateStartingBoard,
      \* every move of b runs into a capture of its last piece
      Place({<<<<2, 3>>, "b">>, <<<<4, 3>>, "w">>}),
      \* captures, a double jump and kings
      Place({<<<<5, 2>>, "w">>, <<<<4, 3>>, "b">>, <<<<2, 5>>, "b">>,
             <<<<6, 5>>, "W">>, <<<<1, 0>>, "B">>}),
      \* men only, far apart: cutoffs in minimising and in maximising calls
      Place({<<<<5, 2>>, "w">>, <<<<2, 3>>, "b">>, <<<<2, 5>>, "b">>}),
      \* neither side can move
      Place({<<<<0, 1>>, "w">>, <<<<7, 2>>, "b">>}),
      \* w cannot move as long as b stays on (0, 1)
      Place({<<<<1, 0>>, "w">>, <<<<0, 1>>, "b">>, <<<<4, 5>>, "b">>}),
      \* and gets there by its step to (1, 0)
      Place({<<<<2, 1>>, "w">>, <<<<0, 1>>, "b">>, <<<<4, 5>>, "b">>}) }

StrategyNames == KnownStrategies \cup {"Random"}

\* a reading of the clock: time does not run backwards
Times == now .. MaxNow

\* A faulty time check that lets a call start at the very instant the budget
\* ends.
_TimeRemainingInclusive(e, t) == (t - e.TimeStart) <= e.TimeLimit

\* _TimeRemaining at clock value t
_TimeRemaining(e, t) == (t - e.TimeStart) < e.TimeLimit

_CollectAnalytics(e, time_used) ==
    [NodesExpanded |-> e.NodesExpanded,
     NodesGenerated |-> e.NodesGenerated,
     AlphaBetaPrunes |-> e.AlphaBetaPrunes,
     OrderingUsed |-> e.OrderingUsed,
     TimeUsed |-> time_used,
     MaxPly |-> e.MaxPly,
     TimeLimit |-> e.TimeLimit]

\* A faulty dispatch that runs the alpha-beta functions under every
\* strategy.
RootFnAlphaBeta(Strategy) == "_AlphaBetaMin"

\* the recursive function the root loop of a strategy calls
RootFn(Strategy) ==
    IF Strategy = "Minimax" THEN "_MinValue" ELSE "_AlphaBetaMin"

Top == stack[Len(stack)]

Pop == SubSeq(stack, 1, Len(stack) - 1)

InitSearch ==
    \E B \in SearchBoards, p \in Players, S \in StrategyNames,
       T \in 0 .. MaxTimeLimit, P \in 1 .. MaxPlies :
        \* the opening position is searched one ply deep only
        /\ B = _CreateStartingBoard => P = 1
        /\ heap = NewGameBoard(EmptyHeap, B, p).heap
        /\ board = NewGameBoard(EmptyHeap, B, p).ref
        /\ parent = NoneRef
        /\ call = [op |-> "none"]
        /\ snap = [board |-> [Board |-> B, PlayerToMove |-> p],
                   parent |-> NoContents]
        /\ descents = 0
        /\ engine = NewSearchToolBox(S, T, P)
        /\ now = 0
        /\ cm = IdleCall
        /\ stack = <<>>
        /\ ret = NoRet
        /\ hist = NoHist
        /\ game = NoGame

\* A faulty start of ChooseMove that leaves the counters as the previous
\* call left them.
ResetKeepingCounters(e, t) == [e EXCEPT !.TimeStart = t, !.TimeUp = FALSE]

\* the first five lines of ChooseMove (lines 82-86)
ResetForCall(e, t) ==
    [e EXCEPT !.NodesExpanded = 0, !.NodesGenerated = 0,
              !.AlphaBetaPrunes = 0, !.TimeStart = t, !.TimeUp = FALSE]

\* ChooseMove up to the root loop (lines 82-113, 150-151)
ChooseMoveCall ==
    /\ cm.pc = "idle"
    /\ \E t \in Times :
       \E gl \in {GenerateLegalMovesOn(heap, board, SideOf(heap, board))} :
        LET b == Contents(heap, board)
            player == b.PlayerToMove
            legal == gl.moves
            e1 == ResetForCall(engine, t)
            c1 == [cm EXCEPT !.player = player, !.legal = legal]
        IN  /\ now' = t
            /\ heap' = gl.heap
            /\ engine' = e1
            /\ IF legal = <<>>
               THEN cm' = [c1 EXCEPT !.pc = "returned",
                              !.result = [move |-> NoMove,
                                  analytics |-> _CollectAnalytics(e1, 0)]]
               ELSE \E child_list \in
                        {IF e1.OrderingUsed
                         THEN OrderedIndices(b, legal, player, TRUE)
                         ELSE Identity(Len(legal))} :
                      cm' = IF e1.Strategy \notin KnownStrategies
                            THEN [c1 EXCEPT !.pc = "raised",
                                     !.child_list = child_list]
                            ELSE [c1 EXCEPT !.pc = "root",
                                     !.child_list = child_list, !.i = 1,
                                     !.bestMove = NoMove,
                                     !.bestVal = InitialBestVal(player),
                                     !.alpha = NegInf, !.beta = PosInf]
            /\ hist' = [hist EXCEPT !.entry = Settings(engine),
                                     !.vals = <<>>]
            /\ UNCHANGED <<board, parent, call, snap, descents, stack, ret,
                           game>>

\* A faulty root loop that does not count the root moves as generated.
RootMoveNotCounted(e) == e

\* the root loop counts the root move it is about to evaluate
\* (lines 116, 128, 141)
RootMoveGenerated(e) == [e EXCEPT !.NodesGenerated = @ + 1]

\* the root loop's handling of the value a root move's evaluation returned
\* (lines 119-123, 131-136, 144-149)
RootReceive(c, Strategy, val) ==
    LET better == FLess(c.bestVal, val)
        bestVal == IF better THEN val ELSE c.bestVal
    IN  [c EXCEPT !.bestVal = bestVal,
                  !.bestMove = IF better THEN c.child_list[c.i] ELSE @,
                  !.alpha = IF Strategy = "Minimax" THEN @
                            ELSE Max(@, bestVal),
                  !.i = @ + 1]

\* one turn of the root loop: take the value that came back, if any, then
\* start the next root move or leave the loop
RootStep ==
    /\ cm.pc = "root"
    /\ stack = <<>>
    /\ LET brk == ret.set /\ ret.isNone
           c1 == IF ret.set /\ ~ret.isNone
                 THEN RootReceive(cm, engine.Strategy, ret.v)
                 ELSE cm
           b == Contents(heap, board)
       IN  IF brk \/ c1.i > Len(c1.child_list)
           THEN /\ cm' = [c1 EXCEPT !.pc = "collect", !.broke = brk]
                /\ UNCHANGED <<engine, stack>>
           ELSE /\ cm' = c1
                /\ engine' = RootMoveGenerated(engine)
                /\ stack' = <<NewFrame(RootFn(engine.Strategy),
                                ApplyMoveValue(b,
                                    c1.legal[c1.child_list[c1.i]]),
                                1, c1.alpha, c1.beta, c1.player,
                                engine.Strategy = "AlphaBetaOrdering")>>
    /\ ret' = NoRet
    /\ hist' = IF ret.set /\ ~ret.isNone
               THEN [hist EXCEPT !.vals = Append(@, ret.v)]
               ELSE hist
    /\ UNCHANGED <<boardVars, now, game>>

\* a recursive call from its first line to its loop or to its return
\* (lines 199-211, 232-243, 271-290, 319-338)
Enter ==
    /\ stack # <<>>
    /\ Top.pc = "entry"
    /\ \E t \in Times :
        LET f == Top
            e1 == [engine EXCEPT !.NodesExpanded = @ + 1]
            winner == GoalTest(f.board.Board)
        IN  /\ now' = t
            /\ IF ~_TimeRemaining(engine, t)
               THEN /\ engine' = [engine EXCEPT !.TimeUp = TRUE]
                    /\ stack' = Pop
                    /\ ret' = Returned(NoneVal)
               ELSE IF EntryTest(winner, f.depth, engine) = "terminal"
               THEN /\ engine' = e1
                    /\ stack' = Pop
                    /\ ret' = Returned(Val(TerminalUtility(winner,
                                                           f.root_player)))
               ELSE IF EntryTest(winner, f.depth, engine) = "limit"
               THEN /\ engine' = e1
                    /\ stack' = Pop
                    /\ ret' = Returned(Val(EvaluateFor(f.board.Board,
                                                       f.root_player)))
               ELSE \E moves0 \in {GenerateLegalMoves(f.board.Board,
                                                      f.board.PlayerToMove)} :
                    /\ engine' = [e1 EXCEPT !.NodesGenerated =
                                                @ + Len(moves0)]
                    /\ stack' = Pop \o
                          <<[f EXCEPT !.pc = "loop",
                                !.v = InitialValue(f.fn),
                                !.moves =
                                    IF IsAlphaBetaFn(f.fn) /\ f.use_ordering
                                    THEN OrderedMoves(f.board, moves0,
                                             f.root_player, ~IsMinFn(f.fn))
                                    ELSE moves0,
                                !.i = 1]>>
                    /\ ret' = NoRet
    /\ UNCHANGED <<boardVars, cm, driverVars>>

\* one turn of a recursive call's loop: take the value that came back, if
\* any, then call for the next move or return
\* (lines 212-218, 244-250, 291-301, 339-349)
Resume ==
    /\ stack # <<>>
    /\ Top.pc = "loop"
    /\ LET f == Top
           got == ret.set
           v1 == IF ~got THEN f.v
                 ELSE IF IsMinFn(f.fn) THEN Min(f.v, ret.v)
                 ELSE Max(f.v, ret.v)
           cut == got /\ IsAlphaBetaFn(f.fn)
                      /\ IsCutoff(f.fn, v1, f.alpha, f.beta)
           alpha1 == IF got /\ IsAlphaBetaFn(f.fn) /\ ~IsMinFn(f.fn)
                     THEN Max(f.alpha, v1) ELSE f.alpha
           beta1 == IF got /\ IsAlphaBetaFn(f.fn) /\ IsMinFn(f.fn)
                    THEN Min(f.beta, v1) ELSE f.beta
           i1 == IF got THEN f.i + 1 ELSE f.i
       IN  IF got /\ ret.isNone
           THEN /\ stack' = Pop
                /\ ret' = Returned(NoneVal)
                /\ UNCHANGED engine
           ELSE IF cut
           THEN /\ engine' = [engine EXCEPT !.AlphaBetaPrunes = @ + 1]
                /\ stack' = Pop
                /\ ret' = Returned(Val(v1))
           ELSE IF i1 > Len(f.moves)
           THEN /\ stack' = Pop
                /\ ret' = Returned(Val(v1))
                /\ UNCHANGED engine
           ELSE /\ stack' = Pop \o
                      <<[f EXCEPT !.v = v1, !.alpha = alpha1,
                                  !.beta = beta1, !.i = i1],
                        NewFrame(ChildFn(f.fn),
                                 ApplyMoveValue(f.board, f.moves[i1]),
                                 ChildDepth(f.depth), alpha1, beta1,
                                 f.root_player,
                                 f.use_ordering)>>
                /\ ret' = NoRet
                /\ UNCHANGED engine
    /\ UNCHANGED <<boardVars, now, cm, driverVars>>

\* max and min of integers
IntMax(a, b) == IF a >= b THEN a ELSE b

IntMin(a, b) == IF a <= b THEN a ELSE b

\* the ordering gain as the fraction num / den of lines 390-393
OrderingGain(prunes_without, prunes_with) ==
    IF prunes_without = 0 THEN [num |-> 0, den |-> 1]
    ELSE [num |-> (prunes_without - prunes_with) * 100,
          den |-> IntMax(1, prunes_without)]

\* the settings _EstimateOrderingGain runs its sweeps with (lines 367-375)
EstimateSetup(e, t) ==
    [e EXCEPT !.TimeLimit = IntMin(EstTimeLimit, e.TimeLimit),
              !.MaxPly = IntMin(EstMaxPly, e.MaxPly),
              !.AlphaBetaPrunes = 0,
              !.TimeStart = t]

\* A faulty end of the estimate that leaves the sweeps' settings in place.
EstimateKeep(e, saved) == e

\* and their restoration (lines 386-388)
EstimateRestore(e, saved) ==
    [e EXCEPT !.TimeLimit = saved.TimeLimit,
              !.MaxPly = saved.MaxPly,
              !.Strategy = saved.Strategy]

\* after the root loop: the analytics record, then either the return or
\* the start of the first sweep of the ordering-gain estimate
\* (lines 153-162, 367-376, 404-406)
Collect ==
    /\ cm.pc = "collect"
    /\ stack = <<>>
    /\ \E t \in Times :
        LET analytics == _CollectAnalytics(engine, t - engine.TimeStart)
        IN  IF engine.OrderingUsed
            THEN \E t2 \in t .. MaxNow :
                   \E gl \in {GenerateLegalMovesOn(heap, board, cm.player)} :
                       /\ now' = t2
                       /\ heap' = gl.heap
                       /\ engine' = EstimateSetup(engine, t2)
                       /\ cm' = [cm EXCEPT !.pc = "est1",
                                    !.analytics = analytics,
                                    !.saved = [TimeLimit |-> engine.TimeLimit,
                                               MaxPly |-> engine.MaxPly,
                                               Strategy |-> engine.Strategy],
                                    !.moves = gl.moves, !.i = 1,
                                    !.alpha = NegInf, !.beta = PosInf]
            ELSE /\ now' = t
                 /\ cm' = [cm EXCEPT !.pc = "returned",
                              !.analytics = analytics,
                              !.result =
                                  [move |-> cm.bestMove,
                                   analytics |-> analytics @@
                                       [OrderingGainEstimate |->
                                           [num |-> 0, den |-> 1]]]]
                 /\ UNCHANGED <<heap, engine>>
    /\ ret' = NoRet
    /\ UNCHANGED <<board, parent, call, snap, descents, stack, driverVars>>

\* one turn of the loop of _AlphaBetaTopCountPrunes (lines 407-412), and
\* what follows the loop in _EstimateOrderingGain and ChooseMove: the
\* second sweep after the first, the restoration and the return after the
\* second
EstStep ==
    /\ cm.pc \in {"est1", "est2"}
    /\ stack = <<>>
    /\ LET brk == ret.set /\ ret.isNone
           c1 == IF ret.set /\ ~ret.isNone
                 THEN [cm EXCEPT !.alpha = Max(@, ret.v), !.i = @ + 1]
                 ELSE cm
           b == Contents(heap, board)
       IN  IF ~brk /\ c1.i <= Len(c1.moves)
           THEN /\ cm' = c1
                /\ stack' = <<NewFrame("_AlphaBetaMin",
                                ApplyMoveValue(b, c1.moves[c1.i]), 1,
                                c1.alpha, c1.beta, c1.player,
                                cm.pc = "est2")>>
                /\ UNCHANGED <<heap, engine, now>>
           ELSE IF cm.pc = "est1"
           THEN \E t \in Times :
                  \E gl \in {GenerateLegalMovesOn(heap, board, cm.player)} :
                      /\ now' = t
                      /\ heap' = gl.heap
                      /\ engine' = [engine EXCEPT !.AlphaBetaPrunes = 0,
                                                  !.TimeStart = t]
                      /\ cm' = [c1 EXCEPT !.pc = "est2",
                                   !.prunes_without = engine.AlphaBetaPrunes,
                                   !.moves = gl.moves, !.i = 1,
                                   !.alpha = NegInf, !.beta = PosInf]
                      /\ UNCHANGED stack
           ELSE /\ engine' = EstimateRestore(engine, cm.saved)
                /\ cm' = [c1 EXCEPT !.pc = "returned",
                             !.result =
                                 [move |-> cm.bestMove,
                                  analytics |-> cm.analytics @@
                                      [OrderingGainEstimate |->
                                          OrderingGain(cm.prunes_without,
                                              engine.AlphaBetaPrunes)]]]
                /\ UNCHANGED <<heap, now, stack>>
    /\ ret' = NoRet
    /\ UNCHANGED <<board, parent, call, snap, descents, driverVars>>

NextSearch ==
    \/ ChooseMoveCall
    \/ RootStep
    \/ Enter
    \/ Resume
    \/ Collect
    \/ EstStep

SpecSearch == InitSearch /\ [][NextSearch]_vars

\* ------------------------------------------------------------------------
\* A caller that calls ChooseMove on one engine and one board several times
\* ------------------------------------------------------------------------
\* how many calls the caller makes
MaxCalls == 2

CallBoards ==
    { Place({<<<<2, 3>>, "b">>, <<<<4, 3>>, "w">>}),
      Place({<<<<5, 2>>, "w">>, <<<<2, 3>>, "b">>, <<<<2, 5>>, "b">>}),
      Place({<<<<0, 1>>, "w">>, <<<<7, 2>>, "b">>}) }

\* the state in which a caller holds a new GameBoard with grid B and side p
\* and a new engine e
StartOn(B, p, e) ==
    /\ heap = NewGameBoard(EmptyHeap, B, p).heap
    /\ board = NewGameBoard(EmptyHeap, B, p).ref
    /\ parent = NoneRef
    /\ call = [op |-> "none"]
    /\ snap = [board |-> [Board |-> B, PlayerToMove |-> p],
               parent |-> NoContents]
    /\ descents = 0
    /\ engine = e
    /\ now = 0
    /\ cm = IdleCall
    /\ stack = <<>>
    /\ ret = NoRet
    /\ hist = NoHist

InitCalls ==
    \E B \in CallBoards, p \in Players, S \in KnownStrategies,
       T \in 0 .. MaxTimeLimit, P \in 1 .. MaxPlies :
        /\ StartOn(B, p, NewSearchToolBox(S, T, P))
        /\ game = NoGame

\* the caller takes what ChooseMove returned, notes it, and is ready to
\* call again
ReturnToCaller ==
    /\ cm.pc = "returned"
    /\ Len(hist.calls) + 1 < MaxCalls
    /\ hist' = [hist EXCEPT !.calls =
                    Append(@, [broke |-> cm.broke,
                               move |-> cm.result.move,
                               analytics |-> cm.result.analytics])]
    /\ cm' = IdleCall
    /\ UNCHANGED <<boardVars, engine, now, stack, ret, game>>

NextCalls ==
    \/ ChooseMoveCall
    \/ RootStep
    \/ Enter
    \/ Resume
    \/ Collect
    \/ EstStep
    \/ ReturnToCaller

SpecCalls == InitCalls /\ [][NextCalls]_vars
\* ------------------------------------------------------------------------
\* The interactive game: PlayingTheGame.RunInteractiveGame, light played by
\* the lines read from standard input, dark by the engine
\* ------------------------------------------------------------------------
\* a line of four integers, and a line that is anything else
Line(sr, sc, tr, tc) == [ok |-> TRUE, s |-> <<sr, sc>>, t |-> <<tr, tc>>]

BadLine == [ok |-> FALSE, s |-> <<0, 0>>, t |-> <<0, 0>>]

\* a game against Minimax with ply limit 1 after which light has a man
\* left and no legal move
BlockingGame ==
    << Line(5, 2, 4, 1), Line(4, 1, 2, 3), Line(5, 4, 4, 3),
       Line(6, 3, 4, 1), Line(4, 1, 2, 3), Line(5, 0, 4, 1),
       Line(5, 6, 4, 7), Line(4, 7, 2, 5), Line(7, 4, 6, 3),
       Line(6, 5, 5, 4), Line(5, 4, 3, 6), Line(6, 7, 5, 6),
       Line(6, 3, 5, 2), Line(5, 2, 4, 3), Line(7, 6, 6, 5),
       Line(7, 2, 6, 3), Line(7, 0, 6, 1), Line(6, 1, 5, 0),
       Line(5, 0, 4, 1), Line(4, 1, 3, 0), Line(3, 0, 2, 1),
       Line(2, 1, 1, 0) >>

\* a game against Minimax with ply limit 1 after which dark has a man
\* left and no legal move
DarkBlockedGame ==
    << Line(5, 0, 4, 1), Line(5, 6, 4, 5), Line(6, 7, 4, 5),
       Line(4, 5, 2, 7), Line(5, 2, 4, 3), Line(6, 1, 5, 0),
       Line(5, 0, 3, 2), Line(5, 4, 3, 2), Line(3, 2, 1, 0),
       Line(1, 0, 3, 2), Line(3, 2, 1, 4), Line(2, 7, 0, 5),
       Line(0, 5, 2, 7), Line(2, 7, 3, 6), Line(3, 6, 5, 4),
       Line(5, 4, 4, 3), Line(6, 5, 5, 4), Line(4, 3, 3, 2),
       Line(7, 6, 5, 4), Line(6, 3, 5, 2), Line(5, 4, 4, 3),
       Line(4, 3, 3, 4), Line(7, 4, 6, 3), Line(5, 2, 4, 1),
       Line(4, 1, 3, 2), Line(6, 3, 5, 2), Line(5, 2, 4, 1),
       Line(7, 0, 6, 1) >>

\* what a game is started with: the arguments of PlayingTheGame and the
\* content of standard input
GameSetups ==
    { \* the blocking game, then two tries to move the blocked man
      [Strategy |-> "Minimax", MaxPly |-> 1,
       stdin |-> BlockingGame \o <<Line(1, 0, 0, 1), Line(1, 0, 2, 1)>>],
      [Strategy |-> "Minimax", MaxPly |-> 1, stdin |-> DarkBlockedGame],
      \* a malformed line, a move that is not legal, then legal ones
      [Strategy |-> "AlphaBeta", MaxPly |-> 1,
       stdin |-> <<BadLine, Line(5, 2, 3, 2)>> \o SubSeq(BlockingGame, 1, 2)],
      [Strategy |-> "AlphaBetaOrdering", MaxPly |-> 2,
       stdin |-> SubSeq(BlockingGame, 1, 1)] }

\* PlayingTheGame.__init__ and the lines of RunInteractiveGame before the
\* loop
InitGame ==
    \E setup \in GameSetups, T \in 1 .. MaxTimeLimit :
        /\ StartOn(_CreateStartingBoard, "w",
                   NewSearchToolBox(setup.Strategy, T, setup.MaxPly))
        /\ game = [pc |-> "top", announced |-> None, stdin |-> setup.stdin,
                   CumulativeAnalytics |-> NoAnalytics]

\* the test at the top of the loop (lines 59-65, 91)
LoopTop ==
    /\ game.pc = "top"
    /\ LET winner == GoalTest(GridOf(heap, board))
       IN  game' = IF winner # None
                   THEN [game EXCEPT !.pc = "over", !.announced = winner]
                   ELSE IF SideOf(heap, board) = "w"
                   THEN [game EXCEPT !.pc = "human"]
                   ELSE [game EXCEPT !.pc = "agent"]
    /\ UNCHANGED <<boardVars, searchVars, hist>>

\* one turn of the loop "while not success" (lines 68-90) on the next line
\* of standard input.  At the end of the input, input() raises EOFError,
\* line 88 catches it and the loop goes round with nothing changed: the
\* model has no step to take then.
HumanTurn ==
    /\ game.pc = "human"
    /\ game.stdin # <<>>
    /\ LET line == Head(game.stdin)
       IN  IF ~line.ok
           THEN /\ game' = [game EXCEPT !.stdin = Tail(@)]
                /\ UNCHANGED <<heap, board, snap>>
           ELSE \E r \in {MakeMoveIfLegal(heap, board, line.s, line.t)} :
                  IF r.ref = NoneRef
                  THEN /\ game' = [game EXCEPT !.stdin = Tail(@)]
                       /\ heap' = r.heap
                       /\ UNCHANGED <<board, snap>>
                  ELSE /\ game' = [game EXCEPT
                               !.stdin = Tail(@), !.pc = "top",
                               !.CumulativeAnalytics["w"].Moves = @ + 1]
                       /\ board' = r.ref
                       /\ heap' = Reclaim(r.heap, {r.ref})
                       /\ snap' = [board |-> Contents(r.heap, r.ref),
                                   parent |-> NoContents]
    /\ UNCHANGED <<parent, call, descents, searchVars, hist>>

\* the agent's turn up to the call of ChooseMove (lines 93-95)
AgentCall ==
    /\ game.pc = "agent"
    /\ ChooseMoveCall

\* the agent's turn from the return of ChooseMove on (lines 95-116)
AgentMove ==
    /\ game.pc = "agent"
    /\ cm.pc = "returned"
    /\ \E t \in Times : now' = t
    /\ cm' = IdleCall
    /\ IF cm.result.move = NoMove
       THEN /\ game' = [game EXCEPT !.pc = "over", !.announced = "w"]
            /\ UNCHANGED <<heap, board, snap>>
       ELSE \E r \in {ApplyMove(heap, board, cm.legal[cm.result.move])} :
              LET a == cm.result.analytics
              IN  /\ board' = r.ref
                  /\ heap' = Reclaim(r.heap, {r.ref})
                  /\ snap' = [board |-> Contents(r.heap, r.ref),
                              parent |-> NoContents]
                  /\ game' = [game EXCEPT
                         !.pc = "top",
                         !.CumulativeAnalytics["b"] =
                             [NodesExpanded |-> @.NodesExpanded
                                                   + a.NodesExpanded,
                              NodesGenerated |-> @.NodesGenerated
                                                    + a.NodesGenerated,
                              AlphaBetaPrunes |-> @.AlphaBetaPrunes
                                                     + a.AlphaBetaPrunes,
                              Moves |-> @.Moves + 1]]
    /\ UNCHANGED <<parent, call, descents, engine, stack, ret, hist>>

NextGame ==
    \/ LoopTop
    \/ HumanTurn
    \/ AgentCall
    \/ RootStep
    \/ Enter
    \/ Resume
    \/ Collect
    \/ EstStep
    \/ AgentMove

SpecGame == InitGame /\ [][NextGame]_vars

\* The loop is the only thread of the program and every statement of it
\* but input() returns: each step of the loop is taken once it can be.
\* HumanTurn is a line arriving on standard input, which happens as long
\* as there is one.  Nothing is asked of Enter, the evaluation of one
\* position inside a search: a search that has begun is then allowed to
\* go on for ever, which the properties checked here do not depend on.
LiveGame ==
    /\ SpecGame
    /\ WF_vars(LoopTop)
    /\ WF_vars(HumanTurn)
    /\ WF_vars(AgentCall)
    /\ WF_vars(RootStep)
    /\ WF_vars(Resume)
    /\ WF_vars(Collect)
    /\ WF_vars(EstStep)
    /\ WF_vars(AgentMove)
\* ------------------------------------------------------------------------
\* Play from the starting position: any legal move of the side to move,
\* applied to the board in play, over and over (what the drivers and the
\* search do with GenerateLegalMoves and ApplyMove)
\* ------------------------------------------------------------------------
\* how many moves in a row are followed
MaxPlayPlies == 7

\* the position of BlockingGame after its 14th exchange (dark men two
\* steps from their last rank), and of DarkBlockedGame after its 10th
\* (a light man two steps from its last rank); light to move in both
BlockingGameAt14 ==
    Place({<<<<0, 1>>, "b">>, <<<<0, 3>>, "b">>, <<<<0, 5>>, "b">>,
           <<<<0, 7>>, "b">>, <<<<5, 0>>, "b">>, <<<<5, 4>>, "b">>,
           <<<<6, 7>>, "b">>, <<<<6, 1>>, "w">>, <<<<7, 0>>, "w">>,
           <<<<7, 2>>, "w">>, <<<<7, 6>>, "w">>})

DarkBlockedGameAt10 ==
    Place({<<<<0, 1>>, "b">>, <<<<0, 3>>, "b">>, <<<<0, 5>>, "b">>,
           <<<<0, 7>>, "b">>, <<<<1, 6>>, "b">>, <<<<2, 3>>, "b">>,
           <<<<2, 7>>, "w">>, <<<<3, 2>>, "w">>, <<<<6, 3>>, "w">>,
           <<<<6, 5>>, "w">>, <<<<7, 0>>, "w">>, <<<<7, 2>>, "w">>,
           <<<<7, 4>>, "w">>, <<<<7, 6>>, "w">>})

PlayBoards == {_CreateStartingBoard, BlockingGameAt14, DarkBlockedGameAt10}

InitPlay ==
    \E B \in PlayBoards :
        /\ StartOn(B, "w", NewSearchToolBox("AlphaBetaOrdering", 4, 6))
        /\ game = NoGame

\* legal = board.GenerateLegalMoves(board.PlayerToMove);
\* board = board.ApplyMove(legal[i]); parent keeps the board moved from
PlayMove ==
    /\ descents < MaxPlayPlies
    /\ \E gl \in {GenerateLegalMovesOn(heap, board, SideOf(heap, board))} :
           \E i \in 1 .. Len(gl.moves) :
               \E r \in {ApplyMove(gl.heap, board, gl.moves[i])} :
                   /\ call' = [op |-> "ApplyMove", move |-> gl.moves[i],
                                ret |-> r.ref]
                   /\ board' = r.ref
                   /\ parent' = board
                   /\ heap' = Reclaim(r.heap, {r.ref, board})
                   /\ snap' = [board |-> Contents(r.heap, r.ref),
                               parent |-> Contents(gl.heap, board)]
    /\ descents' = descents + 1
    /\ UNCHANGED <<searchVars, driverVars>>

NextPlay == PlayMove

SpecPlay == InitPlay /\ [][NextPlay]_vars
\* ------------------------------------------------------------------------
\* Properties of the board model (under SpecBoard)
\* ------------------------------------------------------------------------
\* the board the pending call was made on, as it was before the call
Before == snap.board

\* some piece of player stands next to an opposing piece with an empty
\* square right behind it
CaptureAvailable(B, player) ==
    \E sq \in Squares, dr \in {-1, 1}, dc \in {-1, 1} :
        /\ B[sq] \in {player, IF player = "w" THEN "W" ELSE "B"}
        /\ <<sq[1] + 2 * dr, sq[2] + 2 * dc>> \in Squares
        /\ B[<<sq[1] + dr, sq[2] + dc>>] \notin
               {None, player, IF player = "w" THEN "W" ELSE "B"}
        /\ B[<<sq[1] + 2 * dr, sq[2] + 2 * dc>>] = None

\* some piece of player has an empty square one step ahead (any diagonal
\* step for a king)
StepAvailable(B, player) ==
    \E sq \in Squares, dr \in {-1, 1}, dc \in {-1, 1} :
        /\ B[sq] \in {player, IF player = "w" THEN "W" ELSE "B"}
        /\ B[sq] = "w" => dr = -1
        /\ B[sq] = "b" => dr = 1
        /\ <<sq[1] + dr, sq[2] + dc>> \in Squares
        /\ B[<<sq[1] + dr, sq[2] + dc>>] = None

\* C1: GenerateLegalMoves never returns a mix of capture and non-capture
\* moves: either every returned move has captures or none has; and simple
\* moves are returned only when no piece of that side has a capture
\* available.
C1_NoMixedMoves ==
    call.op = "GenerateLegalMoves" =>
        LET moves == call.ret
            n == 1 .. Len(moves)
        IN  /\ \/ \A i \in n : moves[i].captures # <<>>
               \/ \A i \in n : moves[i].captures = <<>>
            /\ (\E i \in n : moves[i].captures = <<>>)
                   => ~CaptureAvailable(Before.Board, call.player)

\* a call that returned captures although a piece of the side had a simple
\* step to make
C1_Witness ==
    /\ call.op = "GenerateLegalMoves"
    /\ call.ret # <<>>
    /\ \A i \in 1 .. Len(call.ret) : call.ret[i].captures # <<>>
    /\ StepAvailable(Before.Board, call.player)

\* C5: ApplyMove never modifies the board it is called on: square contents,
\* side to move, GoalTest and GenerateLegalMoves of the original are the
\* same before and after the call; the successor is a distinct board (its
\* own object, its own grid), and calls made later on the successor leave
\* the original as it was.
C5_ApplyMoveLeavesOriginal ==
    /\ call.op = "ApplyMove" =>
          /\ Contents(heap, board) = Before
          /\ GoalTest(GridOf(heap, board)) = GoalTest(Before.Board)
          /\ \A p \in Players :
                 GenerateLegalMoves(GridOf(heap, board), p)
                     = GenerateLegalMoves(Before.Board, p)
          /\ call.ret \notin {board, NoneRef}
          /\ heap.GameBoards[call.ret].Board # heap.GameBoards[board].Board
    /\ parent # NoneRef =>
          /\ Contents(heap, parent) = snap.parent
          /\ heap.GameBoards[parent].Board # heap.GameBoards[board].Board

\* ApplyMove was called on a successor while the board it came from is
\* still held, and produced a board that differs from both
C5_Witness ==
    /\ call.op = "ApplyMove"
    /\ parent # NoneRef
    /\ GridOf(heap, call.ret) # GridOf(heap, board)
    /\ GridOf(heap, call.ret) # GridOf(heap, parent)
    /\ GridOf(heap, board) # GridOf(heap, parent)

\* the piece of the pending ApplyMove call and where it ends
MovedPiece == Before.Board[call.move.start]

FinalLanding == call.move.sequence[Len(call.move.sequence)]

Crowned ==
    \/ MovedPiece = "w" /\ FinalLanding[1] = 0
    \/ MovedPiece = "b" /\ FinalLanding[1] = BOARD_SIZE - 1

\* C6: for every legal move of the side to move, in the successor made by
\* ApplyMove every captured square is empty, the final landing square
\* holds the mover's piece (a king if a man landed on its promotion rank,
\* otherwise the same kind), and the start square is empty unless it is
\* the final landing square.
C6_SuccessorSquares ==
    call.op = "ApplyMove" =>
        LET succ == GridOf(heap, call.ret)
        IN  /\ \A i \in 1 .. Len(call.move.captures) :
                   succ[call.move.captures[i]] = None
            /\ succ[FinalLanding] =
                   IF Crowned
                   THEN (IF MovedPiece = "w" THEN "W" ELSE "B")
                   ELSE MovedPiece
            /\ call.move.start # FinalLanding => succ[call.move.start] = None

\* a man captured and landed on its promotion rank
C6_Witness ==
    /\ call.op = "ApplyMove"
    /\ call.move.captures # <<>>
    /\ Crowned
    /\ GridOf(heap, call.ret)[FinalLanding] \in {"W", "B"}

\* the legal moves of the pending MakeMoveIfLegal call that match its
\* arguments, as indices in generation order
Matching ==
    LET legal == GenerateLegalMoves(Before.Board, Before.PlayerToMove)
    IN  {i \in 1 .. Len(legal) :
            /\ legal[i].start = call.s
            /\ \/ legal[i].sequence[1] = call.t
               \/ legal[i].sequence[Len(legal[i].sequence)] = call.t}

\* C9: MakeMoveIfLegal(start, target) returns the successor of the first
\* legal move of the side to move, in generation order, whose start is
\* start and whose first or final landing is target; None when there is
\* none; the board it was called on is unchanged in both cases.
C9_FirstMatchingMove ==
    call.op = "MakeMoveIfLegal" =>
        /\ Contents(heap, board) = Before
        /\ IF Matching = {} THEN call.ret = NoneRef
           ELSE LET legal == GenerateLegalMoves(Before.Board,
                                                Before.PlayerToMove)
                    first == CHOOSE i \in Matching :
                                 \A j \in Matching : i <= j
                IN  /\ call.ret \notin {NoneRef, board}
                    /\ Contents(heap, call.ret) =
                           [Board |-> ApplyMoveGrid(Before.Board,
                                                    legal[first]),
                            PlayerToMove |->
                                OpponentOf(Before.PlayerToMove)]

\* two different legal moves matched the arguments and a successor came
\* back
C9_Witness ==
    /\ call.op = "MakeMoveIfLegal"
    /\ Cardinality(Matching) >= 2
    /\ call.ret # NoneRef

\* the squares of the held board that carry a piece of a side
PiecesOf(player) ==
    {sq \in Squares :
        GridOf(heap, board)[sq] \in
            {player, IF player = "w" THEN "W" ELSE "B"}}

\* C10: GoalTest returns the side whose opponent has no piece left and
\* None exactly when both sides have a piece; a board without light pieces
\* yields dark; a side that has pieces and no legal move is not reported
\* as the loser.
C10_GoalTest ==
    call.op = "GoalTest" =>
        /\ call.ret \in {"w", "b", None}
        /\ call.ret = None <=> (PiecesOf("w") # {} /\ PiecesOf("b") # {})
        /\ call.ret = "w" => PiecesOf("b") = {}
        /\ call.ret = "b" => PiecesOf("w") = {}
        /\ PiecesOf("w") = {} => call.ret = "b"
        /\ \A p \in Players :
               (PiecesOf(p) # {}
                   /\ GenerateLegalMoves(GridOf(heap, board), p) = <<>>)
               => call.ret # OpponentOf(p)

\* GoalTest was asked about a board on which the side to move has pieces
\* and no legal move
C10_Witness ==
    /\ call.op = "GoalTest"
    /\ call.ret = None
    /\ PiecesOf(SideOf(heap, board)) # {}
    /\ GenerateLegalMoves(GridOf(heap, board), SideOf(heap, board)) = <<>>

\* ------------------------------------------------------------------------
\* Properties of the search (under SpecSearch)
\* ------------------------------------------------------------------------
\* C2: for a fixed board and ply limit, without time expiry, ChooseMove
\* ends its root loop with the same best value under Minimax, AlphaBeta
\* and AlphaBetaOrdering: the value the root loop computes over plain
\* minimax, whatever pruning and ordering did.
C2_SameRootValue ==
    (cm.pc = "collect" /\ ~cm.broke /\ ~engine.TimeUp) =>
        cm.bestVal = MinimaxRoot(Contents(heap, board), cm.legal, 1,
                                 InitialBestVal(cm.player), engine.MaxPly)

\* an alpha-beta search of dark that pruned, ran to the end and found a
\* finite value
C2_Witness ==
    /\ cm.pc = "collect"
    /\ ~cm.broke
    /\ ~engine.TimeUp
    /\ engine.Strategy \in {"AlphaBeta", "AlphaBetaOrdering"}
    /\ engine.AlphaBetaPrunes > 0
    /\ engine.MaxPly >= 2
    /\ cm.player = "b"
    /\ FLess(NegInf, cm.bestVal)
    /\ FLess(cm.bestVal, PosInf)

\* C3: from the starting position (light to move) with ply limit 1, for
\* each of the three strategies and without time expiry, ChooseMove
\* returns a move, and it is a simple one: no captures, one landing.
C3_OpeningMove ==
    (/\ cm.pc = "returned"
     /\ Before.Board = _CreateStartingBoard
     /\ Before.PlayerToMove = "w"
     /\ engine.MaxPly = 1
     /\ engine.Strategy \in KnownStrategies
     /\ ~cm.broke)
    => /\ cm.result.move # NoMove
       /\ cm.legal[cm.result.move].captures = <<>>
       /\ Len(cm.legal[cm.result.move].sequence) = 1

\* C4: ChooseMove returns no move only if the side to move has no legal
\* move or the time ran out before any root move returned a value; in
\* every other case it returns one of the legal moves of the side to move.
C4_NoMoveOnlyWithoutChoice ==
    cm.pc = "returned" =>
        /\ cm.result.move = NoMove
               => (cm.legal = <<>> \/ (cm.broke /\ cm.i = 1))
        /\ cm.result.move # NoMove
               => cm.result.move \in 1 .. Len(cm.legal)

\* C7: once a recursive call has seen the deadline pass, the pending calls
\* return the abort signal, the root loop stops, and ChooseMove returns
\* the best move among the root moves evaluated in full before the abort:
\* here, that when the loop was left by the abort after at least one root
\* move was evaluated in full, the returned move is one of those.
C7_AbortReturnsBestCompleted ==
    (cm.pc = "returned" /\ cm.broke /\ cm.i > 1) =>
        cm.result.move \in {cm.child_list[k] : k \in 1 .. (cm.i - 1)}

\* C8: an engine cannot hold an unknown strategy name, so that no
\* ChooseMove call ever runs or returns on such an engine.
C8_UnknownStrategyRejected ==
    engine.Strategy \notin KnownStrategies => cm.pc = "idle"

\* C11: with the AlphaBeta strategy and a ply limit of 1 the cutoff counter
\* is zero all along a ChooseMove call, and zero in the record the call
\* returns, for every board.
C11_NoCutoffAtPlyOne ==
    (engine.Strategy = "AlphaBeta" /\ engine.MaxPly = 1) =>
        /\ engine.AlphaBetaPrunes = 0
        /\ cm.pc = "returned" => cm.result.analytics.AlphaBetaPrunes = 0

\* an AlphaBeta call with ply limit 1 ran over several root moves to its
\* end and returned
C11_Witness ==
    /\ cm.pc = "returned"
    /\ engine.Strategy = "AlphaBeta"
    /\ engine.MaxPly = 1
    /\ ~cm.broke
    /\ Len(cm.legal) >= 2
    /\ cm.result.analytics.NodesExpanded = Len(cm.legal)

\* C12: with the Minimax strategy the cutoff counter is zero at every
\* point of every ChooseMove call, no alpha-beta function is ever called,
\* and the record returned reports AlphaBetaPrunes = 0, for every board,
\* ply limit and time limit.
C12_MinimaxNeverCuts ==
    engine.Strategy = "Minimax" =>
        /\ engine.AlphaBetaPrunes = 0
        /\ \A k \in 1 .. Len(stack) : ~IsAlphaBetaFn(stack[k].fn)
        /\ cm.pc = "returned" => cm.result.analytics.AlphaBetaPrunes = 0

\* a Minimax call of dark, three plies deep, ran to its end and returned a
\* move
C12_Witness ==
    /\ cm.pc = "returned"
    /\ engine.Strategy = "Minimax"
    /\ engine.MaxPly = 3
    /\ ~cm.broke
    /\ cm.player = "b"
    /\ cm.result.move # NoMove
    /\ cm.result.analytics.NodesExpanded > Len(cm.legal)

\* the ordering-gain estimate is running
Estimating == cm.pc \in {"est1", "est2"}

\* C14: under AlphaBetaOrdering the ordering-gain estimate starts only
\* once the root loop is over and the analytics record is taken; while it
\* runs the best move and best value of the root loop stay as they are,
\* and the move returned is that best move; and when ChooseMove returns,
\* the engine's time limit, ply limit and strategy are those it had when
\* ChooseMove was called.
C14_EstimateLeavesSearchAlone ==
    /\ [][(cm'.pc = "est1" /\ cm.pc # "est1") => cm.pc = "collect"]_vars
    /\ [][(cm.pc = "collect" \/ Estimating) =>
              (cm'.bestMove = cm.bestMove /\ cm'.bestVal = cm.bestVal)]_vars
    /\ [](Estimating => engine.OrderingUsed)
    /\ [](cm.pc = "returned" =>
              /\ cm.result.move = cm.bestMove
              /\ Settings(engine) = hist.entry)

\* ChooseMove returned a move after both sweeps ran with a time limit and a
\* ply limit lower than the configured ones
C14_Witness ==
    /\ cm.pc = "returned"
    /\ engine.OrderingUsed
    /\ cm.result.move # NoMove
    /\ hist.entry.MaxPly > EstMaxPly
    /\ hist.entry.TimeLimit > EstTimeLimit
    /\ engine.NodesExpanded > cm.result.analytics.NodesExpanded

\* ------------------------------------------------------------------------
\* Properties of repeated calls (under SpecCalls)
\* ------------------------------------------------------------------------
\* the counters of an analytics record, or of the engine
Counters(a) == <<a.NodesExpanded, a.NodesGenerated, a.AlphaBetaPrunes>>

\* C13: the counters are zero when the root loop of a ChooseMove call
\* starts, whatever the engine did before; and two calls on the same board
\* with the same settings that both ran without time expiry return records
\* with the same nodes expanded, nodes generated and cutoff count.
C13_RecordDependsOnCallOnly ==
    /\ (cm.pc = "root" /\ cm.i = 1 /\ stack = <<>> /\ ~ret.set) =>
           Counters(engine) = <<0, 0, 0>>
    /\ (cm.pc = "returned" /\ ~cm.broke) =>
           \A k \in 1 .. Len(hist.calls) :
               ~hist.calls[k].broke =>
                   Counters(hist.calls[k].analytics)
                       = Counters(cm.result.analytics)

\* a second call returned without time expiry on an engine whose first
\* call had searched, pruned and run the ordering-gain sweeps
C13_Witness ==
    /\ cm.pc = "returned"
    /\ ~cm.broke
    /\ Len(hist.calls) >= 1
    /\ ~hist.calls[1].broke
    /\ engine.OrderingUsed
    /\ hist.calls[1].analytics.NodesExpanded > 0
    /\ hist.calls[1].analytics.AlphaBetaPrunes > 0
    /\ cm.result.analytics.NodesExpanded > 0

\* ------------------------------------------------------------------------
\* Properties of the interactive game (under LiveGame)
\* ------------------------------------------------------------------------
\* the loop is at its top, no side has won by GoalTest, and the side to
\* move, player, has no legal move
NoMoveFor(player) ==
    /\ game.pc = "top"
    /\ SideOf(heap, board) = player
    /\ GoalTest(GridOf(heap, board)) = None
    /\ GenerateLegalMoves(GridOf(heap, board), player) = <<>>

GameOverWon(player) == game.pc = "over" /\ game.announced = player

\* C15: in the interactive game, whenever the side to move, human or
\* agent, has pieces and no legal move, the game eventually ends with the
\* opponent announced as the winner.
C15_NoMoveIsLoss ==
    /\ NoMoveFor("w") ~> GameOverWon("b")
    /\ NoMoveFor("b") ~> GameOverWon("w")

\* the agent's half of C15 on its own: ChooseMove returns no move and the
\* loop announces the human as the winner
AgentWithoutMoveLoses == NoMoveFor("b") ~> GameOverWon("w")

\* the position the game is stuck in: light to move at the human's turn
\* with a man left and no legal move, and no line left to read
HumanWithoutMoveWaits ==
    /\ game.pc = "human"
    /\ game.stdin = <<>>
    /\ GoalTest(GridOf(heap, board)) = None
    /\ GenerateLegalMoves(GridOf(heap, board), "w") = <<>>

\* ------------------------------------------------------------------------
\* Jump chains by the rule, for comparison with what GenerateLegalMoves
\* returns
\* ------------------------------------------------------------------------
Diagonals == {-1, 1} \X {-1, 1}

SymbolsOf(player) == {player, IF player = "w" THEN "W" ELSE "B"}

\* the jumps <<captured square, landing square>> open to a piece of player
\* standing on cur
JumpsAt(B, player, cur) ==
    {<<Step(cur, d, 1), Step(cur, d, 2)>> :
        d \in {e \in Diagonals :
                  /\ Step(cur, e, 2) \in Squares
                  /\ B[Step(cur, e, 1)] \in SymbolsOf(OpponentOf(player))
                  /\ B[Step(cur, e, 2)] = None}}

\* the board after the piece on cur has made the jump j
AfterJump(B, cur, j) ==
    [sq \in Squares |->
        IF sq = j[2] THEN B[cur]
        ELSE IF sq \in {cur, j[1]} THEN None
        ELSE B[sq]]

\* the jump chains from orig that cannot be extended, continued from cur
\* after the landings seq and the captures caps
RECURSIVE MaximalChains(_, _, _, _, _, _)
MaximalChains(B, player, orig, cur, seq, caps) ==
    With(JumpsAt(B, player, cur),
         LAMBDA js :
           IF js = {}
           THEN IF caps = <<>> THEN {}
                ELSE {[start |-> orig, sequence |-> seq, captures |-> caps]}
           ELSE UNION {With(AfterJump(B, cur, j),
                            LAMBDA B1 :
                              MaximalChains(B1, player, orig, j[2],
                                            Append(seq, j[2]),
                                            Append(caps, j[1]))) :
                       j \in js})

\* the board after the jumps of move: the piece on the final landing
\* square, not promoted, and the captured pieces removed
Performed(B, move) ==
    [sq \in Squares |->
        IF sq = LastLanding(move) THEN B[move.start]
        ELSE IF sq = move.start \/ InSeq(sq, move.captures) THEN None
        ELSE B[sq]]

CaptureMoves(moves) ==
    {moves[i] : i \in {k \in 1 .. Len(moves) : moves[k].captures # <<>>}}

\* C16: every capture move returned by GenerateLegalMoves is maximal: on
\* the board obtained by performing its jumps (the moving piece on the
\* final landing square, not promoted, the captured pieces removed) no
\* further jump is open from the final landing square; and every maximal
\* jump chain of every piece of the side is returned.
C16_MaximalChains ==
    call.op = "GenerateLegalMoves" =>
        /\ \A m \in CaptureMoves(call.ret) :
               JumpsAt(Performed(Before.Board, m), call.player,
                       LastLanding(m)) = {}
        /\ \A sq \in Squares :
               Before.Board[sq] \in SymbolsOf(call.player) =>
                   MaximalChains(Before.Board, call.player, sq, sq,
                                 <<>>, <<>>) \subseteq CaptureMoves(call.ret)

\* a call that returned two chains of two jumps with the same first jump,
\* where stopping after the first jump would leave a jump open
C16_Witness ==
    /\ call.op = "GenerateLegalMoves"
    /\ \E m1, m2 \in CaptureMoves(call.ret) :
           /\ m1 # m2
           /\ m1.start = m2.start
           /\ Len(m1.sequence) = 2
           /\ Len(m2.sequence) = 2
           /\ m1.sequence[1] = m2.sequence[1]
           /\ JumpsAt(AfterJump(Before.Board, m1.start,
                                <<m1.captures[1], m1.sequence[1]>>),
                      call.player, m1.sequence[1]) # {}

\* where the moving piece of move stands before its jump i
PositionBefore(move, i) ==
    IF i = 1 THEN move.start ELSE move.sequence[i - 1]

\* mid is the square diagonally between from and to, two steps apart
Between(from, mid, to) ==
    \E d \in Diagonals : mid = Step(from, d, 1) /\ to = Step(from, d, 2)

\* C17: every move returned by GenerateLegalMoves is well-formed.  A
\* non-capture move has empty captures and a sequence of exactly one
\* square.  A capture move has sequence and captures of equal length, at
\* least 1; captures[i] is the square diagonally between the piece's
\* position before jump i and sequence[i], and held an opponent piece on
\* the input board; no square appears twice in captures; and no landing
\* square is a captured square.
C17_WellFormedMoves ==
    call.op = "GenerateLegalMoves" =>
        \A k \in 1 .. Len(call.ret) :
            LET m == call.ret[k]
                n == Len(m.captures)
            IN  /\ m.captures = <<>> => Len(m.sequence) = 1
                /\ m.captures # <<>> =>
                     /\ Len(m.sequence) = n
                     /\ \A i \in 1 .. n :
                          /\ Between(PositionBefore(m, i), m.captures[i],
                                     m.sequence[i])
                          /\ Before.Board[m.captures[i]]
                                 \in SymbolsOf(OpponentOf(call.player))
                          /\ \A j \in 1 .. n :
                                 m.captures[j] = m.captures[i] => j = i
                          /\ ~InSeq(m.sequence[i], m.captures)

\* a call that returned a chain of four jumps ending on its start square,
\* next to the first piece it captured
C17_Witness ==
    /\ call.op = "GenerateLegalMoves"
    /\ \E k \in 1 .. Len(call.ret) :
           /\ Len(call.ret[k].captures) = 4
           /\ LastLanding(call.ret[k]) = call.ret[k].start

\* the rank a man is crowned on, and what it is crowned to
PromotionRow(piece) == IF piece = "w" THEN 0 ELSE BOARD_SIZE - 1

KingOf(piece) == IF piece = "w" THEN "W" ELSE "B"

\* some landing of move before the last one is on row
PassesThrough(move, row) ==
    \E i \in 1 .. Len(move.sequence) - 1 : move.sequence[i][1] = row

\* C18: a man whose capture sequence lands on its promotion rank in the
\* middle of the sequence goes on jumping as the man it is, and promotion
\* is decided by the final landing square only: the successor holds a king
\* on the final landing square if that square is on the promotion rank and
\* the same man if it is not.
C18_PromotionByFinalLanding ==
    /\ call.op = "ApplyMove" =>
          LET piece == Before.Board[call.move.start]
              last == LastLanding(call.move)
          IN  piece \in {"w", "b"} =>
                  GridOf(heap, call.ret)[last] =
                      IF last[1] = PromotionRow(piece)
                      THEN KingOf(piece) ELSE piece
    /\ call.op = "GenerateLegalMoves" =>
          \A m \in CaptureMoves(call.ret) :
              LET piece == Before.Board[m.start]
              IN  (/\ piece \in {"w", "b"}
                   /\ PassesThrough(m, PromotionRow(piece)))
                      => m \in MaximalChains(Before.Board, call.player,
                                             m.start, m.start, <<>>, <<>>)

\* ApplyMove of a man's chain that landed on the promotion rank and ended
\* off it: the successor holds the man
C18_Witness ==
    /\ call.op = "ApplyMove"
    /\ Before.Board[call.move.start] \in {"w", "b"}
    /\ PassesThrough(call.move,
                     PromotionRow(Before.Board[call.move.start]))
    /\ LastLanding(call.move)[1]
           # PromotionRow(Before.Board[call.move.start])
    /\ GridOf(heap, call.ret)[LastLanding(call.move)]
           = Before.Board[call.move.start]

\* the row offsets the piece may step by without capturing
StepRows(piece) ==
    IF piece = "w" THEN {-1} ELSE IF piece = "b" THEN {1} ELSE {-1, 1}

\* the steps without capture open to the piece on sq
StepsAt(B, sq) ==
    {t \in Squares :
        /\ \E d \in Diagonals : t = Step(sq, d, 1) /\ d[1] \in StepRows(B[sq])
        /\ B[t] = None}

SimpleMove(sq, t) == [start |-> sq, sequence |-> <<t>>, captures |-> <<>>]

ElementsOf(s) == {s[i] : i \in 1 .. Len(s)}

\* C19: the non-capturing moves returned by GenerateLegalMoves are single
\* diagonal steps into an empty adjacent square of the board; a light man
\* steps toward row 0 only, a dark man toward row 7 only, a king in each
\* of the four diagonal directions; capturing jumps are open to men and
\* kings alike in the four diagonal directions.
C19_StepAndJumpDirections ==
    call.op = "GenerateLegalMoves" =>
        LET B == Before.Board
            own == {sq \in Squares : B[sq] \in SymbolsOf(call.player)}
            returned == ElementsOf(call.ret)
        IN  /\ \A m \in returned \ CaptureMoves(call.ret) :
                   /\ m.start \in own
                   /\ Len(m.sequence) = 1
                   /\ m.sequence[1] \in StepsAt(B, m.start)
            /\ (\A sq \in own : JumpsAt(B, call.player, sq) = {}) =>
                   \A sq \in own : \A t \in StepsAt(B, sq) :
                       SimpleMove(sq, t) \in returned
            /\ \A sq \in own : \A j \in JumpsAt(B, call.player, sq) :
                   \E m \in CaptureMoves(call.ret) :
                       /\ m.start = sq
                       /\ m.captures[1] = j[1]
                       /\ m.sequence[1] = j[2]

\* a call that returned a man's jump away from its promotion rank
C19_Witness ==
    /\ call.op = "GenerateLegalMoves"
    /\ \E m \in CaptureMoves(call.ret) :
           /\ Before.Board[m.start] \in {"w", "b"}
           /\ m.sequence[1][1] - m.start[1]
                  \notin {2 * r : r \in StepRows(Before.Board[m.start])}

\* a call that returned a king's steps in the four directions
KingStepsAllWays ==
    /\ call.op = "GenerateLegalMoves"
    /\ \E sq \in Squares :
           /\ Before.Board[sq] \in {"W", "B"}
           /\ \A d \in Diagonals :
                  InSeq(SimpleMove(sq, Step(sq, d, 1)), call.ret)

\* one of p and q is light and the other dark
Flipped(p, q) == {p, q} = {"w", "b"}

\* C20: ApplyMove always flips the side to move: the side to move of the
\* successor is the opponent of the side to move of the board it was
\* called on, so that along a game played by applying moves one after the
\* other the side to move alternates between light and dark.
C20_SideAlternates ==
    /\ [](call.op = "ApplyMove" =>
              Flipped(Before.PlayerToMove, SideOf(heap, call.ret)))
    /\ []((call.op = "MakeMoveIfLegal" /\ call.ret # NoneRef) =>
              Flipped(Before.PlayerToMove, SideOf(heap, call.ret)))
    /\ [][board' # board =>
              Flipped(SideOf(heap, board), SideOf(heap', board'))]_vars
    /\ [](parent # NoneRef =>
              Flipped(SideOf(heap, parent), SideOf(heap, board)))

\* three boards in a row: the board a game went on from, its successor,
\* and the successor ApplyMove made of that one
C20_Witness ==
    /\ parent # NoneRef
    /\ call.op = "ApplyMove"
    /\ SideOf(heap, parent) = "w"
    /\ SideOf(heap, board) = "b"
    /\ SideOf(heap, call.ret) = "w"

\* the same along the interactive game, under SpecGame: every change of
\* the board in play changes the side to move
GameSidesAlternate ==
    [][board' # board =>
           Flipped(SideOf(heap, board), SideOf(heap', board'))]_vars

\* ------------------------------------------------------------------------
\* Further properties of the search (under SpecSearch)
\* ------------------------------------------------------------------------
\* the first position of vals holding a value no other exceeds
FirstBest(vals) ==
    CHOOSE k \in 1 .. Len(vals) :
        /\ \A j \in 1 .. Len(vals) : ~FLess(vals[k], vals[j])
        /\ \A j \in 1 .. (k - 1) : FLess(vals[j], vals[k])

\* the root loop is over or was left
RootLoopOver == cm.pc \in {"collect", "est1", "est2", "returned"}

FirstOfTiesForDark ==
    /\ []((/\ RootLoopOver
           /\ hist.vals # <<>>
           /\ cm.player = "b"
           /\ \E k \in 1 .. Len(hist.vals) : FLess(NegInf, hist.vals[k])) =>
              cm.bestMove = cm.child_list[FirstBest(hist.vals)])
    /\ [][(cm.pc = "root" /\ cm'.bestMove # cm.bestMove) =>
              (ret.set /\ ~ret.isNone /\ FLess(cm.bestVal, ret.v)
               /\ cm'.bestVal = ret.v)]_vars

\* a search of dark that ran to its end over root moves of which the second
\* tied with the first for the best value, and returned the first
TieKeptFirst ==
    /\ cm.pc = "returned"
    /\ ~cm.broke
    /\ cm.player = "b"
    /\ Len(hist.vals) >= 2
    /\ hist.vals[2] = hist.vals[1]
    /\ FirstBest(hist.vals) = 1
    /\ FLess(NegInf, hist.vals[1])
    /\ cm.result.move = cm.child_list[1]

\* a search of light over root moves with values below plus infinity that
\* returned no move
TieLostForLight ==
    /\ cm.pc = "returned"
    /\ ~cm.broke
    /\ cm.player = "w"
    /\ Len(hist.vals) >= 2
    /\ FLess(hist.vals[FirstBest(hist.vals)], PosInf)
    /\ cm.result.move = NoMove

\* player has a piece on B
HasPiece(B, player) == \E sq \in Squares : B[sq] \in SymbolsOf(player)

\* one side has no piece on B
OneSideGone(B) == ~HasPiece(B, "w") \/ ~HasPiece(B, "b")

\* C22: in every recursive evaluation, under each strategy, a position in
\* which one side has no pieces is scored plus infinity if the winner is
\* the root player and minus infinity otherwise, and this test comes
\* before the test of the ply limit: a terminal position reached exactly
\* at the ply limit is scored plus or minus infinity, a position at the
\* ply limit that is not terminal is scored by the static heuristic for
\* the root player.  (A call that finds the time up returns no score.)
C22_TerminalBeforePlyLimit ==
    [][(/\ stack # <<>>
        /\ Top.pc = "entry"
        /\ ~(ret'.set /\ ret'.isNone)) =>
           LET f == Top
               B == f.board.Board
               winner == IF HasPiece(B, "w") THEN "w" ELSE "b"
           IN  /\ OneSideGone(B) =>
                      /\ ret'.set
                      /\ ret'.v = IF winner = f.root_player
                                  THEN PosInf ELSE NegInf
               /\ (~OneSideGone(B) /\ f.depth >= engine.MaxPly) =>
                      /\ ret'.set
                      /\ ret'.v = EvaluateFor(B, f.root_player)
               /\ (~OneSideGone(B) /\ f.depth < engine.MaxPly) =>
                      ~ret'.set]_vars

\* the call for the move a pending call is at has just returned a score
\* for a position at the ply limit in which one side has no pieces: an
\* infinity, which the static heuristic would not have given
C22_Witness ==
    /\ stack # <<>>
    /\ Top.pc = "loop"
    /\ ret.set
    /\ ~ret.isNone
    /\ Top.depth + 1 = engine.MaxPly
    /\ OneSideGone(ApplyMoveGrid(Top.board.Board, Top.moves[Top.i]))
    /\ ret.v \in {PosInf, NegInf}
    /\ ret.v # EvaluateFor(ApplyMoveGrid(Top.board.Board, Top.moves[Top.i]),
                           Top.root_player)

\* a value has come back to the pending alpha-beta call on top of the stack
ValueBackToAlphaBeta ==
    /\ stack # <<>>
    /\ Top.pc = "loop"
    /\ IsAlphaBetaFn(Top.fn)
    /\ ret.set
    /\ ~ret.isNone

\* the running value of that call once it has taken the value in
RunningValue ==
    IF IsMinFn(Top.fn)
    THEN (IF FLess(ret.v, Top.v) THEN ret.v ELSE Top.v)
    ELSE (IF FLess(Top.v, ret.v) THEN ret.v ELSE Top.v)

\* it has reached the bound: beta or more in a maximising call, alpha or
\* less in a minimising one
BoundReached ==
    IF IsMinFn(Top.fn)
    THEN ~FLess(Top.alpha, RunningValue)
    ELSE ~FLess(RunningValue, Top.beta)

\* C23: under AlphaBeta and AlphaBetaOrdering a cutoff occurs in a
\* maximising call exactly when its running value becomes >= beta and in a
\* minimising call exactly when it becomes <= alpha; each cutoff adds
\* exactly one to the prune counter, and the call returns its running
\* value at once, without evaluating any of the remaining moves.  The
\* prune counter changes in no other way, but for being set to zero.
C23_CutoffExactlyAtBound ==
    /\ [][(ValueBackToAlphaBeta /\ BoundReached) =>
              /\ engine'.AlphaBetaPrunes = engine.AlphaBetaPrunes + 1
              /\ stack' = Pop
              /\ ret' = Returned(Val(RunningValue))
              /\ engine'.NodesExpanded = engine.NodesExpanded
              /\ engine'.NodesGenerated = engine.NodesGenerated]_vars
    /\ [][(ValueBackToAlphaBeta /\ ~BoundReached) =>
              /\ engine'.AlphaBetaPrunes = engine.AlphaBetaPrunes
              /\ Top.i < Len(Top.moves) => Len(stack') = Len(stack) + 1]_vars
    /\ [][engine'.AlphaBetaPrunes # engine.AlphaBetaPrunes =>
              \/ ValueBackToAlphaBeta /\ BoundReached
              \/ engine'.AlphaBetaPrunes = 0]_vars

\* after an earlier cutoff, a value comes back that brings a call's running
\* value exactly to its bound while the call has moves left to evaluate
C23_Witness ==
    /\ ValueBackToAlphaBeta
    /\ BoundReached
    /\ RunningValue = (IF IsMinFn(Top.fn) THEN Top.alpha ELSE Top.beta)
    /\ Top.i < Len(Top.moves)
    /\ engine.AlphaBetaPrunes > 0
    /\ cm.pc = "root"

\* ------------------------------------------------------------------------
\* Properties of play from the starting position (under SpecPlay)
\* ------------------------------------------------------------------------
\* the interactive game of SpecGame comes to the two later positions that
\* SpecPlay starts from
GameAtBlockingGameAt14 ==
    game.pc = "top" /\ Contents(heap, board) =
        [Board |-> BlockingGameAt14, PlayerToMove |-> "w"]

GameAtDarkBlockedGameAt10 ==
    game.pc = "top" /\ Contents(heap, board) =
        [Board |-> DarkBlockedGameAt10, PlayerToMove |-> "w"]

CountOf(B, player) == Cardinality({sq \in Squares : B[sq] \in SymbolsOf(player)})

\* only squares with row + column odd are occupied, and each side has at
\* most 12 pieces
WellPlaced(B) ==
    /\ \A sq \in Squares : B[sq] # None => (sq[1] + sq[2]) % 2 = 1
    /\ CountOf(B, "w") <= 12
    /\ CountOf(B, "b") <= 12

\* C24: in every board reachable from the starting position by applying
\* moves returned by GenerateLegalMoves for the side to move, only squares
\* where row + column is odd are occupied, and each side has at most 12
\* pieces.
C24_OddSquaresAtMostTwelve == WellPlaced(GridOf(heap, board))

\* a board reached from the starting position, where each side has its 12
\* pieces, by as many moves as are followed, of which the last was a
\* capture that left 11 pieces to each side
C24_Witness ==
    /\ descents = MaxPlayPlies
    /\ call.move.captures # <<>>
    /\ CountOf(GridOf(heap, board), "w") = 11
    /\ CountOf(GridOf(heap, board), "b") = 11

\* the same in the interactive games of SpecGame: of the board in play and
\* of every position a pending recursive call of the search evaluates
GameBoardsWellPlaced ==
    /\ WellPlaced(GridOf(heap, board))
    /\ \A k \in 1 .. Len(stack) : WellPlaced(stack[k].board.Board)

\* no man stands on the rank it is crowned on
NoManOnLastRank(B) ==
    \A sq \in Squares :
        /\ B[sq] = "w" => sq[1] # 0
        /\ B[sq] = "b" => sq[1] # BOARD_SIZE - 1

\* from B to C by move, the piece that moved is the only one that may have
\* changed, it changed from a man to a king or not at all, and it changed
\* only if the move's final landing square is on its promotion rank
KindsKept(B, C, move) ==
    LET piece == B[move.start]
        last == LastLanding(move)
    IN  /\ \A sq \in Squares \ {last} : C[sq] \in {B[sq], None}
        /\ C[last] \in {piece, KingOf(piece)}
        /\ piece \in {"W", "B"} => C[last] = piece
        /\ C[last] # piece => last[1] = PromotionRow(piece)

\* C25: in every board reachable from the starting position by applying
\* legal moves, kings arise by promotion only: no light man ever stands on
\* row 0 and no dark man on row 7, a king never turns back into a man, and
\* a piece becomes a king only in a move whose final landing square is on
\* its promotion rank.
C25_KingsByPromotionOnly ==
    /\ [](NoManOnLastRank(GridOf(heap, board)))
    /\ [][board' # board =>
              KindsKept(GridOf(heap, board), GridOf(heap', board'),
                        call'.move)]_vars

\* a king, which can only come from a promotion earlier in the play, has
\* just moved away from the rank it was crowned on and is still a king
C25_Witness ==
    /\ call.op = "ApplyMove"
    /\ snap.parent.Board[call.move.start] \in {"W", "B"}
    /\ call.move.start[1]
           = PromotionRow(Lower(snap.parent.Board[call.move.start]))
    /\ GridOf(heap, board)[LastLanding(call.move)]
           = snap.parent.Board[call.move.start]
    /\ \E sq \in Squares : GridOf(heap, board)[sq] \in {"w", "b"}
                              /\ sq[1] \in {0, BOARD_SIZE - 1}

\* the same in the interactive games of SpecGame, in which both sides get
\* kings: no man on its last rank, in play or in the search
GameNoManOnLastRank ==
    /\ NoManOnLastRank(GridOf(heap, board))
    /\ \A k \in 1 .. Len(stack) : NoManOnLastRank(stack[k].board.Board)


\* ------------------------------------------------------------------------
\* A budget that has run out when the first root move is entered
\* ------------------------------------------------------------------------
\* the first recursive call of the root loop stands at its first line
FirstChildEntry ==
    /\ cm.pc = "root"
    /\ cm.i = 1
    /\ Len(stack) = 1
    /\ Top.pc = "entry"

\* the root loop is over, it was left by the break, and its record shows
\* one generated node only: the first root move, whose call generated
\* nothing
BrokeAtFirstChild ==
    /\ cm.pc \in {"est1", "est2", "returned"}
    /\ cm.broke
    /\ cm.analytics.NodesGenerated = 1

\* what ChooseMove hands back after such a search
NoMoveAndNothingExpanded ==
    /\ cm.legal # <<>>
    /\ cm.bestMove = NoMove
    /\ cm.analytics.NodesExpanded = 0
    /\ cm.pc = "returned" =>
          /\ cm.result.move = NoMove
          /\ cm.result.analytics.NodesExpanded = 0

SweepsEvaluateAfterAbort ==
    /\ cm.pc = "returned"
    /\ BrokeAtFirstChild
    /\ engine.NodesExpanded > 0


\* ------------------------------------------------------------------------
\* The board a call of GenerateLegalMoves leaves behind (under SpecBoard)
\* ------------------------------------------------------------------------
\* the longest chain of captures among the moves of a list
RECURSIVE LongestChain(_, _)
LongestChain(moves, i) ==
    IF i > Len(moves) THEN 0
    ELSE IntMax(Len(moves[i].captures), LongestChain(moves, i + 1))

\* C27: GenerateLegalMoves returns with the board it was called on
\* identical, square by square, to the board on entry, for every board, for
\* either side and for every nesting depth of jumps: the call leaves every
\* GameBoard and every grid of the heap as it found them, and the board the
\* caller holds has the contents it had when the caller got it. The same
\* holds of the two calls EvaluateFor makes, one for each side, one after
\* the other.
C27_BoardRestored ==
    /\ [](Contents(heap, board) = Before)
    /\ [][call'.op = "GenerateLegalMoves" => heap' = heap]_vars
    /\ [](\A player \in Players :
             With(GenerateLegalMovesRun(GridOf(heap, board), player),
                  LAMBDA first :
                    /\ first.Board = GridOf(heap, board)
                    /\ GenerateLegalMovesRun(first.Board,
                           OpponentOf(player)).Board = GridOf(heap, board)))

\* GenerateLegalMoves has returned a chain of three captures, found three
\* jumps deep, and the board is as it was
C27_Witness ==
    /\ call.op = "GenerateLegalMoves"
    /\ LongestChain(call.ret, 1) >= 3
    /\ Contents(heap, board) = Before

\* the same of ChooseMove once it is past its first call of
\* GenerateLegalMoves, with the calls it makes for the ordering-gain
\* estimate (under SpecSearch)
ChooseMoveLeavesBoard ==
    [][cm.pc # "idle" /\ cm'.pc # "idle" => heap' = heap]_vars


\* ------------------------------------------------------------------------
\* The two node counters during the main search (under SpecSearch)
\* ------------------------------------------------------------------------
MainSearch == cm.pc \in {"root", "collect"}

\* the record of the main search has been taken
RecordTaken == cm.pc \in {"est1", "est2", "returned"} /\ cm.legal # <<>>

\* C28: during the main search of ChooseMove, under every strategy and with
\* or without time expiry, the nodes expanded never exceed the nodes
\* generated, in the engine's counters and in the record taken of them; and
\* under Minimax with no time expiry the two counters are equal when the
\* search finishes.
C28_ExpandedWithinGenerated ==
    /\ MainSearch => engine.NodesExpanded <= engine.NodesGenerated
    /\ RecordTaken =>
          cm.analytics.NodesExpanded <= cm.analytics.NodesGenerated
    /\ (engine.Strategy = "Minimax" /\ ~engine.TimeUp) =>
          /\ cm.pc = "collect" =>
                engine.NodesExpanded = engine.NodesGenerated
          /\ (cm.pc = "returned" /\ cm.legal # <<>>) =>
                /\ cm.result.analytics.NodesExpanded =
                       cm.result.analytics.NodesGenerated
                /\ cm.result.analytics.NodesExpanded >= Len(cm.legal)

\* a search with alpha-beta pruning has finished in time with fewer nodes
\* expanded than generated, three plies deep
C28_Witness ==
    /\ cm.pc = "returned"
    /\ engine.Strategy = "AlphaBeta"
    /\ ~engine.TimeUp
    /\ engine.MaxPly = 3
    /\ 0 < cm.result.analytics.NodesExpanded
    /\ cm.result.analytics.NodesExpanded <
           cm.result.analytics.NodesGenerated

\* a Minimax search has finished in time, three plies deep, with the two
\* counters equal and greater than the number of root moves
MinimaxCountersEqual ==
    /\ cm.pc = "returned"
    /\ engine.Strategy = "Minimax"
    /\ ~engine.TimeUp
    /\ engine.MaxPly = 3
    /\ cm.result.analytics.NodesExpanded > Len(cm.legal)
    /\ cm.result.analytics.NodesExpanded =
           cm.result.analytics.NodesGenerated

\* a search cut short by the clock has fewer nodes expanded than generated
\* under Minimax too
MinimaxAbortedFewerExpanded ==
    /\ cm.pc = "returned"
    /\ engine.Strategy = "Minimax"
    /\ engine.TimeUp
    /\ 0 < cm.result.analytics.NodesExpanded
    /\ cm.result.analytics.NodesExpanded <
           cm.result.analytics.NodesGenerated


\* ------------------------------------------------------------------------
\* Termination of ChooseMove
\* ------------------------------------------------------------------------
\* ChooseMove runs in one thread, and every statement of it and of the
\* functions it calls returns: each step of the search is taken once it
\* can be.
LiveSearch ==
    /\ SpecSearch
    /\ WF_vars(ChooseMoveCall)
    /\ WF_vars(RootStep)
    /\ WF_vars(Enter)
    /\ WF_vars(Resume)
    /\ WF_vars(Collect)
    /\ WF_vars(EstStep)

ChooseMoveOver == cm.pc \in {"returned", "raised"}

\* C29: for every board and every ply limit of at least 1, ChooseMove
\* terminates, whether the time runs out or not: the root's calls are at
\* depth 1, every call is one deeper than its caller and none is deeper
\* than the ply limit in force, and a call at the ply limit goes through
\* no moves.
C29_BoundedDepthTerminates ==
    /\ [](\A k \in 1 .. Len(stack) :
             /\ stack[k].depth = k
             /\ stack[k].depth <= engine.MaxPly
             /\ stack[k].pc = "loop" => stack[k].depth < engine.MaxPly)
    /\ [](engine.MaxPly >= 1)
    /\ <>ChooseMoveOver

\* a main search three plies deep has come back in time with a move, the
\* clock never having reached the time limit
C29_Witness ==
    /\ cm.pc = "returned"
    /\ cm.saved = IdleCall.saved
    /\ engine.MaxPly = 3
    /\ ~engine.TimeUp
    /\ engine.TimeLimit > MaxNow
    /\ engine.NodesExpanded > Len(cm.legal)
    /\ cm.result.move # NoMove

\* a call at the ply limit, three deep, is about to evaluate its position
AtThePlyLimit ==
    /\ Len(stack) = 3
    /\ engine.MaxPly = 3
    /\ Top.pc = "entry"
    /\ cm.pc = "root"


\* ------------------------------------------------------------------------
\* A node of the search whose side to move cannot move (under SpecSearch)
\* ------------------------------------------------------------------------
\* the call on top of the stack is on a board where both sides have pieces
\* and the side to move has neither a capture nor a step
TopBlocked ==
    /\ stack # <<>>
    /\ HasPiece(Top.board.Board, "w")
    /\ HasPiece(Top.board.Board, "b")
    /\ ~CaptureAvailable(Top.board.Board, Top.board.PlayerToMove)
    /\ ~StepAvailable(Top.board.Board, Top.board.PlayerToMove)

\* positive and negative infinity as values returned
LossForMover(fn) ==
    IF fn \in {"_MinValue", "_AlphaBetaMin"}
    THEN [sign |-> 1, mag |-> <<2 ^ 30, 0, 0>>]
    ELSE [sign |-> -1, mag |-> <<2 ^ 30, 0, 0>>]

\* C30: at a node of the search below the ply limit where both sides have
\* pieces and the side to move has no legal move, a call that is in time
\* counts the node as expanded and no node as generated, goes through no
\* move, and returns +infinity when it minimises and -infinity when it
\* maximises, with no cutoff counted, under the three strategies and in the
\* sweeps of the estimate.
C30_BlockedNodeIsLoss ==
    /\ [][(TopBlocked /\ Top.pc = "entry" /\ Top.depth < engine.MaxPly
              /\ now' - engine.TimeStart < engine.TimeLimit)
            => /\ Len(stack') = Len(stack)
               /\ stack'[Len(stack)].pc = "loop"
               /\ stack'[Len(stack)].moves = <<>>
               /\ ~ret'.set
               /\ engine' = [engine EXCEPT !.NodesExpanded = @ + 1]]_vars
    /\ [][(TopBlocked /\ Top.pc = "loop")
            => /\ stack' = Pop
               /\ ret' = [set |-> TRUE, isNone |-> FALSE,
                          v |-> LossForMover(Top.fn)]
               /\ engine' = engine]_vars
    /\ [](TopBlocked /\ Top.pc = "loop" => Top.depth < engine.MaxPly)

\* a minimising call at depth 1 has found its side without a move
C30_Witness ==
    /\ TopBlocked
    /\ Top.pc = "loop"
    /\ Top.fn = "_AlphaBetaMin"
    /\ Top.depth = 1
    /\ cm.pc = "root"

\* and the other functions: a maximising call at depth 2, and the two
\* functions of Minimax
BlockedMaxAlphaBeta ==
    TopBlocked /\ Top.pc = "loop" /\ Top.fn = "_AlphaBetaMax" /\ Top.depth = 2

BlockedMinValue ==
    TopBlocked /\ Top.pc = "loop" /\ Top.fn = "_MinValue" /\ cm.pc = "root"

BlockedMaxValue ==
    TopBlocked /\ Top.pc = "loop" /\ Top.fn = "_MaxValue" /\ cm.pc = "root"

\* with move ordering
BlockedWithOrdering ==
    /\ TopBlocked
    /\ Top.pc = "loop"
    /\ Top.use_ordering
    /\ cm.pc = "root"
=============================================================================
